---- MODULE Spec2Model ----
(***************************************************************************)
(* Seller side of the ACP command line: offering registration              *)
(* (seller/seller_cli.ts), the seller runtime's job handling               *)
(* (seller/runtime/seller.ts), the offering loader (seller/process-job.ts) *)
(* and the protocol action stubs (seller/runtime/sellerApi.ts); the        *)
(* agents of config.json (lib/config.ts, lib/auth.ts, commands/agent.ts,   *)
(* commands/setup.ts).                                                     *)
(*                                                                         *)
(* JavaScript runs one callback at a time: every action below is the code  *)
(* that runs between two consecutive `await` points of one async call.     *)
(***************************************************************************)
EXTENDS Integers, Sequences, FiniteSets, TLC

VARIABLES
    disk,        \* offerings/<name>/ on the file system
    cli,         \* the run of `offering:create` (createOffering)
    registered,  \* payloads accepted by createJobOffering
    passes,      \* the calls of handleNewTask, in order of delivery
    trace,       \* per pass: protocol actions emitted and handler calls
    modules,     \* per offering name: the handlers module held by import()
    io,          \* per offering name: reads of offering.json, evaluations of handlers.ts
    config,      \* config.json: the agents array and LITE_AGENT_API_KEY
    setup,       \* the run of `acp setup` (selectOrCreateAgent)
    last,        \* the last call of syncAgentsToConfig: its input and the list it read
    session,     \* SESSION_TOKEN of config.json, the clock, the run of ensureSession
    sim,         \* the run of processJob, the local job simulator
    seller       \* SELLER_PID of config.json, the seller processes of the OS

toolVars == <<session, sim, seller>>

agentVars == <<config, setup, last, toolVars>>

vars == <<disk, cli, registered, passes, trace, modules, io, config, setup, last,
          session, sim, seller>>

(***************************************************************************)
(* Bounds                                                                  *)
(***************************************************************************)
MaxPasses == 2

\* config.json does not exist: readConfig() returns {}
NoKey == "absent"
NoConfig == [agents |-> << >>, key |-> NoKey]
SetupIdle == [pc |-> "idle", agents |-> << >>]
NoSync == [op |-> "none", before |-> << >>, server |-> << >>]

\* no SESSION_TOKEN in config.json, ensureSession not called
NoToken == [kind |-> "absent", exp |-> 0]
SessionIdle ==
    [pc |-> "idle", stored |-> NoToken, now |-> 0, attempts |-> 0,
     existing |-> NoToken, fresh |-> NoToken, result |-> NoToken]

\* processJob not called
SimIdle == [pc |-> "idle", name |-> "none", jobFee |-> 0, out |-> << >>]

\* no SELLER_PID in config.json, no seller process
NoPid == 0
SellerIdle == [pid |-> NoPid, live |-> {}, sellers |-> {}, calls |-> 0, spawned |-> 0]

InitTools ==
    /\ session = SessionIdle
    /\ sim = SimIdle
    /\ seller = SellerIdle

InitAgents ==
    /\ config = NoConfig
    /\ setup = SetupIdle
    /\ last = NoSync
    /\ InitTools

OfferingNames == {"donation", "swap"}
\* job ids are opaque: they are numbered in the order in which they first appear
JobIds == 1..MaxPasses
None == "none"

(***************************************************************************)
(* offering.json                                                           *)
(*                                                                         *)
(* A field is held as the class of its JSON value that the code tells      *)
(* apart: "absent" (undefined, null, and for strings also ""), "blank"     *)
(* (a string of white space), "other" (a value of the wrong type).         *)
(***************************************************************************)
StringField == {"absent", "other", "blank", "ok"}
FeeField == {"absent", "other", "negative", "ok"}
FundsField == {"absent", "other", "true", "false"}

OfferingObjects ==
    [name: StringField, description: StringField,
     jobFee: FeeField, requiredFunds: FundsField]

\* state of the file: missing, not JSON, the JSON value null, or a JSON
\* object (any other JSON value reads as an object with every field absent)
NoObject ==
    [name |-> "absent", description |-> "absent",
     jobFee |-> "absent", requiredFunds |-> "absent"]

JsonFiles ==
    [kind: {"missing", "invalid", "null"}, obj: {NoObject}]
    \cup [kind: {"object"}, obj: OfferingObjects]

(***************************************************************************)
(* handlers.ts                                                             *)
(*                                                                         *)
(* For each handler name the file holds at most one declaration, in one    *)
(* of these forms (X is the handler name):                                 *)
(*   "exportFunction"   export [async] function X(request) { ... }         *)
(*   "exportConst"      export const X = [async] (request) => ...          *)
(*   "exportList"       function X(request) { ... }  export { X };         *)
(*   "exportLet"        export let X = [async] (request) => ...            *)
(*   "commented"        // export function X(request) { ... }              *)
(*   "local"            function X(request) { ... }      (not exported)    *)
(*   "none"             X does not occur in the file                       *)
(***************************************************************************)
HandlerNames == {"executeJob", "validateRequirements", "requestAdditionalFunds"}
Declarations ==
    {"exportFunction", "exportConst", "exportList", "exportLet",
     "commented", "local", "none"}

HandlersFiles ==
    [exists: BOOLEAN, decl: [HandlerNames -> Declarations]]

NoHandlersFile == [exists |-> FALSE, decl |-> [h \in HandlerNames |-> "none"]]

\* a missing directory holds no files; a missing handlers.ts declares nothing
DiskEntries ==
    {e \in [dir: BOOLEAN, json: JsonFiles, handlers: HandlersFiles] :
        /\ ~e.dir => (e.json.kind = "missing" /\ ~e.handlers.exists)
        /\ ~e.handlers.exists => e.handlers = NoHandlersFile}

\* what `import(handlersPath)` evaluates to: the names the module exports
\* (ECMAScript module semantics: a comment or a local function exports nothing)
ModuleExports(file) ==
    {h \in HandlerNames :
        file.decl[h] \in {"exportFunction", "exportConst", "exportList", "exportLet"}}

\* /export\s+(async\s+)?function\s+X\s*\(/
PatternExportFunction(file, h) ==
    file.decl[h] \in {"exportFunction", "commented"}

\* /export\s+const\s+X\s*=/ and, for executeJob, the two patterns
\* /export\s+const\s+executeJob\s*=\s*(async\s*)?\(/ and ...(async\s*)?function/
PatternExportConst(file, h) ==
    file.decl[h] = "exportConst"

\* /export\s*\{\s*[^}]*X[^}]*\}/
PatternExportList(file, h) ==
    file.decl[h] = "exportList"

\* patterns.some((pattern) => pattern.test(content))
TextHasHandler(file, h) ==
    \/ PatternExportFunction(file, h)
    \/ PatternExportConst(file, h)
    \/ PatternExportList(file, h)

(***************************************************************************)
(* seller_cli.ts: offering:create                                          *)
(***************************************************************************)
IF_(c, s) == IF c THEN s ELSE << >>

\* JSON.parse returned null: reading json.name throws a TypeError, which
\* ends the command through main().catch with exit status 1
validateOfferingJsonThrows(json) == json.kind = "null"

\* validateOfferingJson: the errors pushed, in order; valid iff there are none
validateOfferingJson(json) ==
    IF json.kind = "missing" THEN <<"offering.json not found">>
    ELSE IF json.kind = "invalid" THEN <<"Invalid JSON in offering.json">>
    ELSE
        LET o == json.obj IN
           IF_(o.name \in {"absent", "other"}, <<"must have a name field">>)
        \o IF_(o.name = "blank", <<"name cannot be empty">>)
        \o IF_(o.description \in {"absent", "other"}, <<"must have a description field">>)
        \o IF_(o.description = "blank", <<"description cannot be empty">>)
        \o IF_(o.jobFee = "absent", <<"must have a jobFee field">>)
        \o IF_(o.jobFee = "other", <<"jobFee must be a number">>)
        \o IF_(o.jobFee = "negative", <<"jobFee must be non-negative">>)
        \o IF_(o.requiredFunds = "absent", <<"must have a requiredFunds field">>)
        \o IF_(o.requiredFunds = "other", <<"requiredFunds must be a boolean">>)

\* validateHandlers(filePath, requiredFunds): the errors pushed, in order.
\* requiredFunds is "true", "false" or "absent" (undefined)
validateHandlers(file, requiredFunds) ==
    IF ~file.exists THEN <<"handlers.ts not found">>
    ELSE
           IF_(~TextHasHandler(file, "executeJob"), <<"must export executeJob">>)
        \o IF_(requiredFunds = "true" /\ ~TextHasHandler(file, "requestAdditionalFunds"),
               <<"must export requestAdditionalFunds">>)
        \o IF_(requiredFunds = "false" /\ TextHasHandler(file, "requestAdditionalFunds"),
               <<"must NOT export requestAdditionalFunds">>)

validateHandlersWarnings(file) ==
    IF ~file.exists THEN << >>
    ELSE IF_(~TextHasHandler(file, "validateRequirements"),
             <<"validateRequirements handler not found">>)

\* buildAcpPayload: the fields of the payload that depend on offering.json
buildAcpPayload(name, json) ==
    [offering |-> name, requiredFunds |-> json.obj.requiredFunds]

NotImported == [loaded |-> FALSE, exports |-> {}]

CliIdle == [pc |-> "idle", name |-> None, errors |-> << >>, warnings |-> << >>]

\* (variant of createOffering: without the exit on collected errors)
CreateOfferingUngated(name) ==
    /\ cli.pc = "idle"
    /\ LET e == disk[name]
           jsonErrors == validateOfferingJson(e.json)
           parsedFunds == IF jsonErrors = << >> THEN e.json.obj.requiredFunds ELSE "absent"
           allErrors == jsonErrors \o validateHandlers(e.handlers, parsedFunds)
           allWarnings == validateHandlersWarnings(e.handlers)
       IN  cli' = IF ~e.dir \/ validateOfferingJsonThrows(e.json)
                    THEN [pc |-> "exit1", name |-> name, errors |-> << >>, warnings |-> << >>]
                  ELSE [pc |-> "registering", name |-> name,
                        errors |-> allErrors, warnings |-> allWarnings]
    /\ UNCHANGED <<disk, registered, passes, trace, modules, io, agentVars>>

\* createOffering up to `await createJobOffering(acpPayload)`
CreateOffering(name) ==
    /\ cli.pc = "idle"
    /\ LET e == disk[name]
           jsonErrors == validateOfferingJson(e.json)
           parsedFunds == IF jsonErrors = << >> THEN e.json.obj.requiredFunds ELSE "absent"
           allErrors == jsonErrors \o validateHandlers(e.handlers, parsedFunds)
           allWarnings == validateHandlersWarnings(e.handlers)
       IN  cli' = IF ~e.dir \/ validateOfferingJsonThrows(e.json)
                    THEN [pc |-> "exit1", name |-> name, errors |-> << >>, warnings |-> << >>]
                  ELSE IF allErrors # << >>
                    THEN [pc |-> "exit1", name |-> name,
                          errors |-> allErrors, warnings |-> allWarnings]
                  ELSE [pc |-> "registering", name |-> name,
                        errors |-> << >>, warnings |-> allWarnings]
    /\ UNCHANGED <<disk, registered, passes, trace, modules, io, agentVars>>

\* createJobOffering returned: { success: true } or { success: false }
CreateJobOfferingReturns(success) ==
    /\ cli.pc = "registering"
    /\ IF success
         THEN /\ registered' = registered \cup {buildAcpPayload(cli.name, disk[cli.name].json)}
              /\ cli' = [cli EXCEPT !.pc = "exit0"]
         ELSE /\ registered' = registered
              /\ cli' = [cli EXCEPT !.pc = "exit1"]
    /\ UNCHANGED <<disk, passes, trace, modules, io, agentVars>>

MissingEntry ==
    [dir |-> FALSE, json |-> [kind |-> "missing", obj |-> NoObject],
     handlers |-> NoHandlersFile]

\* the offering the command is run on can be in any state; the other is absent
InitCreate ==
    /\ \E n \in OfferingNames, e \in DiskEntries :
          disk = [m \in OfferingNames |-> IF m = n THEN e ELSE MissingEntry]
    /\ cli = CliIdle
    /\ registered = {}
    /\ passes = << >>
    /\ trace = << >>
    /\ modules = [n \in OfferingNames |-> NotImported]
    /\ io = [n \in OfferingNames |-> [reads |-> 0, evals |-> 0]]
    /\ InitAgents

NextCreate ==
    \/ \E n \in OfferingNames : CreateOffering(n)
    \/ \E ok \in BOOLEAN : CreateJobOfferingReturns(ok)

SpecCreate == InitCreate /\ [][NextCreate]_vars

(***************************************************************************)
(* seller/runtime/seller.ts: job events                                    *)
(***************************************************************************)
\* AcpJobPhase: the phases handleNewTask tells apart, and "OTHER" for every
\* other value of data.phase
Phases == {"REQUEST", "NEGOTIATION", "TRANSACTION", "OTHER"}

Absent == "absent"

\* a request object: {} is [name |-> Absent, raw |-> Absent]
EmptyRequest == [name |-> Absent, raw |-> Absent]
AdaRequest == [name |-> "Ada", raw |-> Absent]

\* memo contents: empty, a JSON object, and text that is not JSON
AdaJson == "{\"name\":\"Ada\"}"
DonationJson == "{\"name\":\"donation\"}"
MemoContents == {"", AdaJson, DonationJson, "hello"}

\* JSON.parse(content): the value, or ok = FALSE when it throws
JSONParse(content) ==
    IF content = AdaJson THEN [ok |-> TRUE, value |-> AdaRequest]
    ELSE IF content = DonationJson
        THEN [ok |-> TRUE, value |-> [name |-> "donation", raw |-> Absent]]
    ELSE IF content = "{}" THEN [ok |-> TRUE, value |-> EmptyRequest]
    ELSE [ok |-> FALSE, value |-> EmptyRequest]

Memos == [nextPhase: {"NEGOTIATION", "TRANSACTION"}, content: MemoContents]

\* context fields: a name field is Absent, "" or a name
NameValues == {Absent, ""} \cup OfferingNames
NoRequirements == [present |-> FALSE, value |-> EmptyRequest]
Contexts ==
    [jobOfferingName: NameValues, offeringName: NameValues,
     serviceRequirements:
        {NoRequirements} \cup [present: {TRUE}, value: {EmptyRequest, AdaRequest}]]

\* resolveOfferingName: context.jobOfferingName ?? context.offeringName ?? undefined
resolveOfferingName(data) ==
    IF data.context.jobOfferingName # Absent THEN data.context.jobOfferingName
    ELSE data.context.offeringName

\* `if (offeringName)`: undefined and "" are falsy
Truthy(name) == name \notin {Absent, ""}

\* memos.find((m) => m.nextPhase === NEGOTIATION): index of the first, or 0
\* (variant: the last such memo)
FindLastNegotiationMemo(memos) ==
    IF \E i \in 1..Len(memos) : memos[i].nextPhase = "NEGOTIATION"
    THEN CHOOSE i \in 1..Len(memos) :
            /\ memos[i].nextPhase = "NEGOTIATION"
            /\ \A j \in (i + 1)..Len(memos) : memos[j].nextPhase # "NEGOTIATION"
    ELSE 0

FindNegotiationMemo(memos) ==
    IF \E i \in 1..Len(memos) : memos[i].nextPhase = "NEGOTIATION"
    THEN CHOOSE i \in 1..Len(memos) :
            /\ memos[i].nextPhase = "NEGOTIATION"
            /\ \A j \in 1..(i - 1) : memos[j].nextPhase # "NEGOTIATION"
    ELSE 0

\* (variant of resolveServiceRequirements: content that is not JSON is dropped)
resolveServiceRequirementsDropsRaw(data) ==
    IF data.context.serviceRequirements.present
    THEN data.context.serviceRequirements.value
    ELSE LET i == FindNegotiationMemo(data.memos) IN
         IF i # 0 /\ data.memos[i].content # ""
         THEN LET parsed == JSONParse(data.memos[i].content) IN
              IF parsed.ok THEN parsed.value ELSE EmptyRequest
         ELSE EmptyRequest

resolveServiceRequirements(data) ==
    IF data.context.serviceRequirements.present
    THEN data.context.serviceRequirements.value
    ELSE LET i == FindNegotiationMemo(data.memos) IN
         IF i # 0 /\ data.memos[i].content # ""
         THEN LET parsed == JSONParse(data.memos[i].content) IN
              IF parsed.ok THEN parsed.value
              ELSE [name |-> Absent, raw |-> data.memos[i].content]
         ELSE EmptyRequest

(***************************************************************************)
(* Handlers: user code.  A call returns one of the values below or throws. *)
(***************************************************************************)
NoTransfer == [ca |-> None, amount |-> 0]

\* offerings/donation/handlers.ts (executeJob), and a handler that also
\* returns a transfer
ExecuteJobResults(request) ==
    { [deliverable |->
          <<"Thank you ", IF request.name # Absent THEN request.name ELSE "Anonymous">>,
       transfer |-> NoTransfer],
      [deliverable |-> <<"swapped">>, transfer |-> [ca |-> "0xToken", amount |-> 5]] }

FundsResults == { [amount |-> 100, ca |-> "0xToken", symbol |-> "TKN"] }

ErrorMessage == "boom"

\* what a call does: it throws, or returns one of the values
Outcomes(values) ==
    [throws : {FALSE}, value : values]
    \cup {[throws |-> TRUE, value |-> CHOOSE v \in values : TRUE]}

(***************************************************************************)
(* What a pass has done, in order: protocol actions (sellerApi.ts) and     *)
(* handler calls                                                           *)
(***************************************************************************)
NoEvent ==
    [ev |-> "-", accept |-> FALSE, reason |-> << >>, amount |-> 0, ca |-> None,
     mode |-> None, deliverable |-> << >>, transfer |-> NoTransfer, handler |-> None,
     value |-> None]

acceptOrRejectJob(accept, reason) ==
    [NoEvent EXCEPT !.ev = "acceptOrRejectJob", !.accept = accept, !.reason = reason]

requestPayment(amount, ca, mode) ==
    [NoEvent EXCEPT !.ev = "requestPayment", !.amount = amount, !.ca = ca, !.mode = mode]

deliverJob(deliverable, transfer) ==
    [NoEvent EXCEPT !.ev = "deliverJob", !.deliverable = deliverable,
                    !.transfer = transfer]

\* a handler is called, returns (with the value it returned) or throws
Called(handler) == [NoEvent EXCEPT !.ev = "call", !.handler = handler]
Threw(handler) == [NoEvent EXCEPT !.ev = "throw", !.handler = handler]
ReturnedBoolean(handler, value) ==
    [NoEvent EXCEPT !.ev = "return", !.handler = handler, !.value = value]
ReturnedFunds(funds) ==
    [NoEvent EXCEPT !.ev = "return", !.handler = "requestAdditionalFunds",
                    !.amount = funds.amount, !.ca = funds.ca]
ReturnedResult(result) ==
    [NoEvent EXCEPT !.ev = "return", !.handler = "executeJob",
                    !.deliverable = result.deliverable, !.transfer = result.transfer]

(***************************************************************************)
(* loadOffering (seller/process-job.ts)                                    *)
(***************************************************************************)
\* up to `await import(handlersPath)`: the error thrown ("" when none) and
\* whether offering.json was read
loadOfferingStart(entry) ==
    IF ~entry.dir THEN [err |-> "Offering directory not found", read |-> FALSE]
    ELSE IF entry.json.kind = "missing"
        THEN [err |-> "offering.json not found", read |-> FALSE]
    ELSE IF entry.json.kind = "invalid"
        THEN [err |-> "Unexpected token in JSON", read |-> TRUE]
    ELSE IF ~entry.handlers.exists
        THEN [err |-> "handlers.ts not found", read |-> TRUE]
    ELSE [err |-> "", read |-> TRUE]

\* import(handlersPath): a module is evaluated the first time its path is
\* imported and the same module is returned on every later import
ImportUncached(cached, file) ==
    [exports |-> ModuleExports(file), evaluated |-> TRUE]

Import(cached, file) ==
    IF ~cached.loaded
    THEN [exports |-> ModuleExports(file), evaluated |-> TRUE]
    ELSE [exports |-> cached.exports, evaluated |-> FALSE]

\* after the import: typeof handlers.executeJob !== "function"
loadOfferingFinish(exports) ==
    IF "executeJob" \notin exports
    THEN "handlers.ts must export an executeJob function"
    ELSE ""

(***************************************************************************)
(* handleNewTask (seller/runtime/seller.ts)                                *)
(***************************************************************************)
\* onNewTask calls handleNewTask without awaiting it: a pass runs whenever
\* the promise it awaits has settled, whatever the other passes are doing
ScheduledInOrder(p, at) ==
    /\ p \in DOMAIN passes
    /\ passes[p].pc \in at
    /\ \A q \in 1..(p - 1) : passes[q].pc = "done"

\* (variant: a rejection that nothing catches ends the process, and no
\* continuation runs after it)
ScheduledUntilFailure(p, at) ==
    /\ p \in DOMAIN passes
    /\ passes[p].pc \in at
    /\ \A q \in DOMAIN passes :
          /\ passes[q].err = ""
          /\ \A i \in DOMAIN trace[q] : trace[q][i].ev # "throw"

\* (variant: an event whose job id and phase were seen before is dropped)
ScheduledOnce(p, at) ==
    /\ p \in DOMAIN passes
    /\ passes[p].pc \in at
    /\ \A q \in 1..(p - 1) :
          \/ passes[q].data.id # passes[p].data.id
          \/ passes[q].data.phase # passes[p].data.phase

Scheduled(p, at) ==
    /\ p \in DOMAIN passes
    /\ passes[p].pc \in at

\* the catch blocks: REQUEST rejects with the message, TRANSACTION only logs.
\* The protocol actions of sellerApi.ts log and return; after the last one of
\* a pass handleNewTask only logs and returns, so the pass is "done" with it
CatchLogsOnly(phase, err) ==
    [pc |-> "done", out |-> << >>]

CatchAlwaysRejects(phase, err) ==
    [pc |-> "done",
     out |-> <<acceptOrRejectJob(FALSE, <<"Handler error: ", err>>)>>]

\* (variant: the catch block calls executeJob again)
CatchRetries(phase, err) ==
    [pc |-> "executing", out |-> <<Called("executeJob")>>]

\* (variant: the reason does not carry the error's message)
CatchGenericReason(phase, err) ==
    IF phase = "REQUEST"
    THEN [pc |-> "done",
          out |-> <<acceptOrRejectJob(FALSE, <<"Handler error: ", "unknown">>)>>]
    ELSE [pc |-> "done", out |-> << >>]

Catch(phase, err) ==
    IF phase = "REQUEST"
    THEN [pc |-> "done",
          out |-> <<acceptOrRejectJob(FALSE, <<"Handler error: ", err>>)>>]
    ELSE [pc |-> "done", out |-> << >>]

\* (variants of AfterLoad: the result of validateRequirements is not looked
\* at; executeJob is called before the job is accepted)
AfterLoadIgnoresValidation(phase, exports, valid) ==
    IF phase = "REQUEST"
    THEN IF "validateRequirements" \in exports
         THEN IF valid = "throw"
              THEN [pc |-> "done",
                    out |-> <<Called("validateRequirements"),
                              Threw("validateRequirements"),
                              acceptOrRejectJob(FALSE, <<"Handler error: ", ErrorMessage>>)>>]
              ELSE [pc |-> "afterAccept",
                    out |-> <<Called("validateRequirements"),
                              ReturnedBoolean("validateRequirements", valid),
                              acceptOrRejectJob(TRUE, <<"Job accepted">>)>>]
         ELSE [pc |-> "afterAccept",
               out |-> <<acceptOrRejectJob(TRUE, <<"Job accepted">>)>>]
    ELSE [pc |-> "executing", out |-> <<Called("executeJob")>>]

AfterLoadExecutesFirst(phase, exports, valid) ==
    [pc |-> "executing", out |-> <<Called("executeJob")>>]

\* (variant of AfterLoad: an offering without validateRequirements is
\* rejected)
AfterLoadRequiresValidation(phase, exports, valid) ==
    IF phase = "REQUEST"
    THEN IF "validateRequirements" \in exports
         THEN IF valid = "throw"
              THEN LET c == Catch(phase, ErrorMessage) IN
                   [pc |-> c.pc,
                    out |-> <<Called("validateRequirements"),
                              Threw("validateRequirements")>> \o c.out]
              ELSE IF valid = "false"
              THEN [pc |-> "done",
                    out |-> <<Called("validateRequirements"),
                              ReturnedBoolean("validateRequirements", "false"),
                              acceptOrRejectJob(FALSE, <<"Validation failed">>)>>]
              ELSE [pc |-> "afterAccept",
                    out |-> <<Called("validateRequirements"),
                              ReturnedBoolean("validateRequirements", "true"),
                              acceptOrRejectJob(TRUE, <<"Job accepted">>)>>]
         ELSE [pc |-> "done",
               out |-> <<acceptOrRejectJob(FALSE, <<"Validation failed">>)>>]
    ELSE [pc |-> "executing", out |-> <<Called("executeJob")>>]

\* (variant of AfterLoad: the job is accepted before validateRequirements
\* is called)
AfterLoadAcceptsBeforeValidation(phase, exports, valid) ==
    IF phase = "REQUEST"
    THEN IF "validateRequirements" \in exports
         THEN IF valid = "throw"
              THEN LET c == Catch(phase, ErrorMessage) IN
                   [pc |-> c.pc,
                    out |-> <<acceptOrRejectJob(TRUE, <<"Job accepted">>),
                              Called("validateRequirements"),
                              Threw("validateRequirements")>> \o c.out]
              ELSE IF valid = "false"
              THEN [pc |-> "done",
                    out |-> <<acceptOrRejectJob(TRUE, <<"Job accepted">>),
                              Called("validateRequirements"),
                              ReturnedBoolean("validateRequirements", "false"),
                              acceptOrRejectJob(FALSE, <<"Validation failed">>)>>]
              ELSE [pc |-> "afterAccept",
                    out |-> <<acceptOrRejectJob(TRUE, <<"Job accepted">>),
                              Called("validateRequirements"),
                              ReturnedBoolean("validateRequirements", "true")>>]
         ELSE [pc |-> "afterAccept",
               out |-> <<acceptOrRejectJob(TRUE, <<"Job accepted">>)>>]
    ELSE [pc |-> "executing", out |-> <<Called("executeJob")>>]

\* (variant of AfterLoad: validation and accept in every phase)
AfterLoadAnyPhase(phase, exports, valid) ==
    IF "validateRequirements" \in exports
    THEN IF valid = "throw"
         THEN LET c == Catch(phase, ErrorMessage) IN
              [pc |-> c.pc,
               out |-> <<Called("validateRequirements"),
                         Threw("validateRequirements")>> \o c.out]
         ELSE IF valid = "false"
         THEN [pc |-> "done",
               out |-> <<Called("validateRequirements"),
                         ReturnedBoolean("validateRequirements", "false"),
                         acceptOrRejectJob(FALSE, <<"Validation failed">>)>>]
         ELSE [pc |-> "afterAccept",
               out |-> <<Called("validateRequirements"),
                         ReturnedBoolean("validateRequirements", "true"),
                         acceptOrRejectJob(TRUE, <<"Job accepted">>)>>]
    ELSE [pc |-> "afterAccept",
          out |-> <<acceptOrRejectJob(TRUE, <<"Job accepted">>)>>]

\* lines 101-115 and 158-162 after loadOffering returned: validation and
\* accept (REQUEST), or the call of executeJob (TRANSACTION).
\* valid is what validateRequirements does: "true", "false" or "throw"
AfterLoad(phase, exports, valid) ==
    IF phase = "REQUEST"
    THEN IF "validateRequirements" \in exports
         THEN IF valid = "throw"
              THEN LET c == Catch(phase, ErrorMessage) IN
                   [pc |-> c.pc,
                    out |-> <<Called("validateRequirements"),
                              Threw("validateRequirements")>> \o c.out]
              ELSE IF valid = "false"
              THEN [pc |-> "done",
                    out |-> <<Called("validateRequirements"),
                              ReturnedBoolean("validateRequirements", "false"),
                              acceptOrRejectJob(FALSE, <<"Validation failed">>)>>]
              ELSE [pc |-> "afterAccept",
                    out |-> <<Called("validateRequirements"),
                              ReturnedBoolean("validateRequirements", "true"),
                              acceptOrRejectJob(TRUE, <<"Job accepted">>)>>]
         ELSE [pc |-> "afterAccept",
               out |-> <<acceptOrRejectJob(TRUE, <<"Job accepted">>)>>]
    ELSE [pc |-> "executing", out |-> <<Called("executeJob")>>]

\* line 118: config.requiredFunds && handlers.requestAdditionalFunds
NeedsPaymentHandlerOnly(requiredFunds, exports) ==
    "requestAdditionalFunds" \in exports

NeedsPayment(requiredFunds, exports) ==
    requiredFunds = "true" /\ "requestAdditionalFunds" \in exports

\* lines 144-148 and 172-174: no offering name was resolved
NoOfferingRejects(phase) ==
    IF phase = "REQUEST"
    THEN [pc |-> "done",
          out |-> <<acceptOrRejectJob(FALSE, <<"Accepted (no offering matched)">>)>>]
    ELSE [pc |-> "done", out |-> << >>]

\* (variant of NoOffering: the accept in every phase)
NoOfferingAcceptsAnyPhase(phase) ==
    [pc |-> "done",
     out |-> <<acceptOrRejectJob(TRUE, <<"Accepted (no offering matched)">>)>>]

NoOffering(phase) ==
    IF phase = "REQUEST"
    THEN [pc |-> "done",
          out |-> <<acceptOrRejectJob(TRUE, <<"Accepted (no offering matched)">>)>>]
    ELSE [pc |-> "done", out |-> << >>]

NewPass(data) ==
    [data |-> data, pc |-> "start", offeringName |-> resolveOfferingName(data),
     requirements |-> resolveServiceRequirements(data),
     requiredFunds |-> Absent, exports |-> {}, err |-> ""]

\* handleNewTask treating every phase as it treats TRANSACTION
DeliverAnyPhase(data) ==
    /\ Len(passes) < MaxPasses
    /\ data.id <= Len(passes) + 1
    /\ LET new == NewPass(data)
           phase == data.phase
           name == new.offeringName
       IN
       IF ~Truthy(name)
       THEN /\ passes' = Append(passes, [new EXCEPT !.pc = NoOffering(phase).pc])
            /\ trace' = Append(trace, NoOffering(phase).out)
            /\ io' = io
       ELSE LET start == loadOfferingStart(disk[name]) IN
            /\ passes' = Append(passes,
                   IF start.err # ""
                   THEN [new EXCEPT !.pc = "loadRejected", !.err = start.err]
                   ELSE [new EXCEPT !.pc = "importing",
                                    !.requiredFunds =
                                        disk[name].json.obj.requiredFunds])
            /\ trace' = Append(trace, << >>)
            /\ io' = IF start.read
                     THEN [io EXCEPT ![name].reads = @ + 1]
                     ELSE io
    /\ UNCHANGED <<disk, cli, registered, modules, agentVars>>

\* the transport delivers an event: handleNewTask runs up to its first await
Deliver(data) ==
    /\ Len(passes) < MaxPasses
    /\ data.id <= Len(passes) + 1
    /\ LET new == NewPass(data)
           phase == data.phase
           name == new.offeringName
       IN
       IF phase \notin {"REQUEST", "TRANSACTION"}
       THEN /\ passes' = Append(passes, [new EXCEPT !.pc = "done"])
            /\ trace' = Append(trace, << >>)
            /\ io' = io
       ELSE IF ~Truthy(name)
       THEN /\ passes' = Append(passes, [new EXCEPT !.pc = NoOffering(phase).pc])
            /\ trace' = Append(trace, NoOffering(phase).out)
            /\ io' = io
       ELSE LET start == loadOfferingStart(disk[name]) IN
            /\ passes' = Append(passes,
                   IF start.err # ""
                   THEN [new EXCEPT !.pc = "loadRejected", !.err = start.err]
                   ELSE [new EXCEPT !.pc = "importing",
                                    !.requiredFunds =
                                        disk[name].json.obj.requiredFunds])
            /\ trace' = Append(trace, << >>)
            /\ io' = IF start.read
                     THEN [io EXCEPT ![name].reads = @ + 1]
                     ELSE io
    /\ UNCHANGED <<disk, cli, registered, modules, agentVars>>

\* loadOffering threw before the import: the catch block runs
LoadFails(p) ==
    /\ Scheduled(p, {"loadRejected"})
    /\ LET c == Catch(passes[p].data.phase, passes[p].err) IN
       /\ passes' = [passes EXCEPT ![p].pc = c.pc]
       /\ trace' = [trace EXCEPT ![p] = @ \o c.out]
    /\ UNCHANGED <<disk, cli, registered, modules, io, agentVars>>

\* the import settled: loadOffering returns or throws, and handleNewTask
\* runs up to its next await
ImportResolves(p, valid) ==
    /\ Scheduled(p, {"importing"})
    /\ LET name == passes[p].offeringName
           m == Import(modules[name], disk[name].handlers)
           err == loadOfferingFinish(m.exports)
           phase == passes[p].data.phase
           next == IF err # "" THEN Catch(phase, err)
                   ELSE AfterLoad(phase, m.exports, valid)
       IN
       /\ modules' = [modules EXCEPT ![name] = [loaded |-> TRUE, exports |-> m.exports]]
       /\ io' = IF m.evaluated THEN [io EXCEPT ![name].evals = @ + 1] ELSE io
       /\ passes' = [passes EXCEPT
                        ![p].pc = next.pc,
                        ![p].err = err,
                        ![p].exports = m.exports]
       /\ trace' = [trace EXCEPT ![p] = @ \o next.out]
    /\ UNCHANGED <<disk, cli, registered, agentVars>>

\* the funds step with a throw of requestAdditionalFunds swallowed
AfterAcceptSwallowsThrow(p, funds) ==
    /\ Scheduled(p, {"afterAccept"})
    /\ LET next ==
             IF NeedsPayment(passes[p].requiredFunds, passes[p].exports)
             THEN IF funds.throws
                  THEN [pc |-> "executing",
                        out |-> <<Called("requestAdditionalFunds"),
                                  Threw("requestAdditionalFunds"),
                                  Called("executeJob")>>]
                  ELSE [pc |-> "afterPayment",
                        out |-> <<Called("requestAdditionalFunds"),
                                  ReturnedFunds(funds.value),
                                  requestPayment(funds.value.amount, funds.value.ca,
                                                 "request")>>]
             ELSE [pc |-> "executing", out |-> <<Called("executeJob")>>]
       IN
       /\ passes' = [passes EXCEPT ![p].pc = next.pc]
       /\ trace' = [trace EXCEPT ![p] = @ \o next.out]
    /\ UNCHANGED <<disk, cli, registered, modules, io, agentVars>>

\* after `await acceptOrRejectJob(jobId, { accept: true })`: the payment
\* request, or the call of executeJob.  funds is what requestAdditionalFunds
\* does
AfterAccept(p, funds) ==
    /\ Scheduled(p, {"afterAccept"})
    /\ LET phase == passes[p].data.phase
           next ==
             IF NeedsPayment(passes[p].requiredFunds, passes[p].exports)
             THEN IF funds.throws
                  THEN LET c == Catch(phase, ErrorMessage) IN
                       [pc |-> c.pc,
                        out |-> <<Called("requestAdditionalFunds"),
                                  Threw("requestAdditionalFunds")>> \o c.out]
                  ELSE [pc |-> "afterPayment",
                        out |-> <<Called("requestAdditionalFunds"),
                                  ReturnedFunds(funds.value),
                                  requestPayment(funds.value.amount, funds.value.ca,
                                                 "request")>>]
             ELSE [pc |-> "executing", out |-> <<Called("executeJob")>>]
       IN
       /\ passes' = [passes EXCEPT ![p].pc = next.pc]
       /\ trace' = [trace EXCEPT ![p] = @ \o next.out]
    /\ UNCHANGED <<disk, cli, registered, modules, io, agentVars>>

\* after `await requestPayment(...)`: executeJob is called
AfterPayment(p) ==
    /\ Scheduled(p, {"afterPayment"})
    /\ passes' = [passes EXCEPT ![p].pc = "executing"]
    /\ trace' = [trace EXCEPT ![p] = Append(@, Called("executeJob"))]
    /\ UNCHANGED <<disk, cli, registered, modules, io, agentVars>>

\* (variant of ExecuteJobSettles: the deliver is followed by the catch block)
ExecuteJobSettlesThenRejects(p, result) ==
    /\ Scheduled(p, {"executing"})
    /\ LET phase == passes[p].data.phase
           c == Catch(phase, ErrorMessage)
           next ==
             IF result.throws
             THEN [pc |-> c.pc, out |-> <<Threw("executeJob")>> \o c.out]
             ELSE [pc |-> "done",
                   out |-> <<ReturnedResult(result.value),
                             deliverJob(result.value.deliverable,
                                        result.value.transfer)>> \o c.out]
       IN
       /\ passes' = [passes EXCEPT ![p].pc = next.pc]
       /\ trace' = [trace EXCEPT ![p] = @ \o next.out]
    /\ UNCHANGED <<disk, cli, registered, modules, io, agentVars>>

\* the promise of executeJob settles: deliver, or the catch block.
\* result is the value it resolves with, or the rejection
ExecuteJobSettles(p, result) ==
    /\ Scheduled(p, {"executing"})
    /\ LET phase == passes[p].data.phase
           next ==
             IF result.throws
             THEN LET c == Catch(phase, ErrorMessage) IN
                  [pc |-> c.pc, out |-> <<Threw("executeJob")>> \o c.out]
             ELSE [pc |-> "done",
                   out |-> <<ReturnedResult(result.value),
                             deliverJob(result.value.deliverable,
                                        result.value.transfer)>>]
       IN
       /\ passes' = [passes EXCEPT ![p].pc = next.pc]
       /\ trace' = [trace EXCEPT ![p] = @ \o next.out]
    /\ UNCHANGED <<disk, cli, registered, modules, io, agentVars>>

\* the code of pass p that runs next
Step(p) ==
    \/ LoadFails(p)
    \/ \E valid \in {"true", "false", "throw"} : ImportResolves(p, valid)
    \/ \E funds \in Outcomes(FundsResults) : AfterAccept(p, funds)
    \/ AfterPayment(p)
    \/ /\ p \in DOMAIN passes
       /\ \E result \in Outcomes(ExecuteJobResults(passes[p].requirements)) :
             ExecuteJobSettles(p, result)

(***************************************************************************)
(* The seller runtime                                                      *)
(***************************************************************************)
\* offerings/donation as the runtime can find it: broken, or loadable with
\* any combination of requiredFunds and exported handlers; offerings/swap
\* does not exist
ValidObject(funds) ==
    [name |-> "ok", description |-> "ok", jobFee |-> "ok", requiredFunds |-> funds]

RuntimeEntries ==
    {[dir |-> TRUE, json |-> [kind |-> "invalid", obj |-> NoObject],
      handlers |-> NoHandlersFile],
     [dir |-> TRUE, json |-> [kind |-> "object", obj |-> ValidObject("false")],
      handlers |-> NoHandlersFile]}
    \cup {[dir |-> TRUE, json |-> [kind |-> "object", obj |-> ValidObject(f)],
           handlers |-> h] :
            f \in {"true", "false"},
            h \in {g \in [exists : {TRUE},
                          decl : [HandlerNames -> {"exportFunction", "none"}]] :
                     "executeJob" \in ModuleExports(g) \/ ModuleExports(g) = {}}}

\* the events the transport delivers: with no context and no memos, or
\* naming an offering and carrying the requirements
EmptyContext ==
    [jobOfferingName |-> Absent, offeringName |-> Absent,
     serviceRequirements |-> NoRequirements]

NamedContext(name) ==
    [jobOfferingName |-> name, offeringName |-> Absent,
     serviceRequirements |-> [present |-> TRUE, value |-> AdaRequest]]

Events ==
    {e \in [id: JobIds, phase: Phases,
            context: {EmptyContext} \cup {NamedContext(n) : n \in OfferingNames},
            memos: {<< >>}] :
        e.phase \notin {"REQUEST", "TRANSACTION"} => e.context = NamedContext("donation")}

Init ==
    /\ \E e \in RuntimeEntries :
          disk = [n \in OfferingNames |-> IF n = "donation" THEN e ELSE MissingEntry]
    /\ cli = CliIdle
    /\ registered = {}
    /\ passes = << >>
    /\ trace = << >>
    /\ modules = [n \in OfferingNames |-> NotImported]
    /\ io = [n \in OfferingNames |-> [reads |-> 0, evals |-> 0]]
    /\ InitAgents

Next ==
    \/ \E data \in Events : Deliver(data)
    \/ \E p \in 1..MaxPasses : Step(p)

Spec == Init /\ [][Next]_vars

(***************************************************************************)
(* Extraction of the offering name and of the requirements from an event   *)
(***************************************************************************)
MaxMemos == 2

\* data.memos: the memos of the job, in the order the event carries them
MemoSeqs == UNION {[1..n -> Memos] : n \in 0..MaxMemos}

ExtractEvents ==
    [id: {1}, phase: {"REQUEST", "TRANSACTION"}, context: Contexts, memos: MemoSeqs]

\* handleNewTask, lines 97-98 and 155-156: the two extractions on an event
Resolve(data) ==
    /\ passes = << >>
    /\ passes' = <<NewPass(data)>>
    /\ trace' = << << >> >>
    /\ UNCHANGED <<disk, cli, registered, modules, io, agentVars>>

NextExtract == passes = << >> /\ \E data \in ExtractEvents : Resolve(data)

SpecExtract == Init /\ [][NextExtract]_vars

(***************************************************************************)
(* Properties                                                              *)
(***************************************************************************)
IsAccept(e) == e.ev = "acceptOrRejectJob" /\ e.accept
IsReject(e) == e.ev = "acceptOrRejectJob" /\ ~e.accept
IsPayment(e) == e.ev = "requestPayment"
IsDeliver(e) == e.ev = "deliverJob"
IsAction(e) == e.ev \in {"acceptOrRejectJob", "requestPayment", "deliverJob"}
IsCall(e) == e.ev = "call"
IsExecuteReturn(e) == e.ev = "return" /\ e.handler = "executeJob"

\* the protocol actions a pass has emitted, in order
Actions(p) == SelectSeq(trace[p], IsAction)
Has(p, e) == \E i \in DOMAIN trace[p] : trace[p][i] = e
RequestPasses == {p \in DOMAIN passes : passes[p].data.phase = "REQUEST"}
TransactionPasses == {p \in DOMAIN passes : passes[p].data.phase = "TRANSACTION"}

\* C1: whenever an offering has been registered, its offering.json says
\* requiredFunds = true exactly when its handlers.ts exports
\* requestAdditionalFunds
C1_ContractLaw ==
    \A r \in registered :
        (r.requiredFunds = "true")
            <=> ("requestAdditionalFunds" \in ModuleExports(disk[r.offering].handlers))

\* C2: a REQUEST pass in which validateRequirements returned false has
\* emitted one reject with reason "Validation failed" and nothing else, and
\* has called no other handler
C2_ValidationShortCircuit ==
    \A p \in RequestPasses :
        Has(p, ReturnedBoolean("validateRequirements", "false")) =>
            /\ Actions(p) = <<acceptOrRejectJob(FALSE, <<"Validation failed">>)>>
            /\ SelectSeq(trace[p], IsCall) = <<Called("validateRequirements")>>

C2_Witness ==
    \E p \in RequestPasses :
        /\ Has(p, ReturnedBoolean("validateRequirements", "false"))
        /\ passes[p].pc = "done"

\* C3: a REQUEST pass that has delivered has emitted, before the deliver,
\* exactly one payment request (in mode "request") when the offering has
\* requiredFunds = true, and none when it has requiredFunds = false
C3_FundingGate ==
    \A p \in RequestPasses :
        \A d \in DOMAIN trace[p] :
            IsDeliver(trace[p][d]) =>
                LET payments == SelectSeq(SubSeq(trace[p], 1, d - 1), IsPayment) IN
                /\ SelectSeq(trace[p], IsPayment) = payments
                /\ passes[p].requiredFunds = "true" =>
                      (Len(payments) = 1 /\ payments[1].mode = "request")
                /\ passes[p].requiredFunds = "false" => payments = << >>

\* C4: a REQUEST pass in which executeJob threw has emitted exactly one
\* reject, whose reason embeds the error message, and no deliver
C4_ExecuteFailureRequest ==
    \A p \in RequestPasses :
        Has(p, Threw("executeJob")) =>
            /\ SelectSeq(trace[p], IsReject)
                  = <<acceptOrRejectJob(FALSE, <<"Handler error: ", ErrorMessage>>)>>
            /\ SelectSeq(trace[p], IsDeliver) = << >>

C4_Witness ==
    \E p \in RequestPasses :
        Has(p, Threw("executeJob")) /\ passes[p].pc = "done"

\* C5: a TRANSACTION pass in which executeJob threw has emitted no reject
\* and no deliver
C5_ExecuteFailureTransaction ==
    \A p \in TransactionPasses :
        Has(p, Threw("executeJob")) =>
            /\ SelectSeq(trace[p], IsReject) = << >>
            /\ SelectSeq(trace[p], IsDeliver) = << >>

C5_Witness ==
    \E p \in TransactionPasses :
        Has(p, Threw("executeJob")) /\ passes[p].pc = "done"

\* C6: a REQUEST pass for an event from which no offering name is resolved
\* has accepted the job with the generic reason and has done nothing else:
\* no reject, no payment request, no deliver, no handler call
C6_UnresolvableAccepted ==
    \A p \in RequestPasses :
        ~Truthy(resolveOfferingName(passes[p].data)) =>
            trace[p] = <<acceptOrRejectJob(TRUE, <<"Accepted (no offering matched)">>)>>

C6_Witness ==
    \E p \in RequestPasses :
        /\ passes[p].data.context = EmptyContext
        /\ passes[p].data.memos = << >>
        /\ passes[p].pc = "done"

\* C7: a REQUEST pass for an offering with requiredFunds = false in which
\* executeJob returned a result has emitted accept(true) and then a deliver
\* carrying the deliverable and the transfer of that result, and nothing else
C7_HappyPath ==
    \A p \in RequestPasses :
        \A i \in DOMAIN trace[p] :
            (IsExecuteReturn(trace[p][i]) /\ passes[p].requiredFunds = "false") =>
                Actions(p) = <<acceptOrRejectJob(TRUE, <<"Job accepted">>),
                               deliverJob(trace[p][i].deliverable, trace[p][i].transfer)>>

\* requirements { name: "Ada" } give deliver({ deliverable: "Thank you Ada" })
C7_Witness ==
    \E p \in RequestPasses :
        /\ passes[p].requirements = AdaRequest
        /\ passes[p].requiredFunds = "false"
        /\ Actions(p) = <<acceptOrRejectJob(TRUE, <<"Job accepted">>),
                          deliverJob(<<"Thank you ", "Ada">>, NoTransfer)>>

\* the passes whose call of loadOffering got as far as reading offering.json
ReadBy(n) ==
    {p \in DOMAIN passes :
        /\ passes[p].data.phase \in {"REQUEST", "TRANSACTION"}
        /\ passes[p].offeringName = n
        /\ loadOfferingStart(disk[n]).read}

C9_StepsInOrder ==
    \A p \in DOMAIN passes :
        \A j \in DOMAIN trace[p] :
            LET e == trace[p][j]
                before == SubSeq(trace[p], 1, j - 1)
                Earlier(e2) == \E i \in DOMAIN before : before[i] = e2
            IN
            /\ IsPayment(e) =>
                  /\ \E i \in DOMAIN before : IsAccept(before[i])
                  /\ ~Earlier(Called("executeJob"))
            /\ (e = Called("executeJob") /\ p \in RequestPasses) =>
                  /\ \E i \in DOMAIN before : IsAccept(before[i])
                  /\ NeedsPayment(passes[p].requiredFunds, passes[p].exports) =>
                        \E i \in DOMAIN before : IsPayment(before[i])
            /\ IsDeliver(e) =>
                  /\ Earlier(Called("executeJob"))
                  /\ IsExecuteReturn(before[Len(before)])

C9_Witness ==
    \E p \in RequestPasses :
        /\ \E i \in DOMAIN trace[p] : IsPayment(trace[p][i])
        /\ \E i \in DOMAIN trace[p] : IsDeliver(trace[p][i])

\* C10: while executeJob of one pass is pending, the next step of every
\* other pass that is waiting for a settled promise can run, and a new event
\* can be dispatched
C10_NoWaitingForExecuteJob ==
    \A a \in DOMAIN passes :
        passes[a].pc = "executing" =>
            /\ \A b \in DOMAIN passes \ {a} :
                  passes[b].pc \notin {"done", "executing"} => ENABLED Step(b)
            /\ Len(passes) < MaxPasses => ENABLED (\E data \in Events : Deliver(data))

\* job B, delivered after job A, has been delivered its result while
\* executeJob of A is still pending
C10_Witness ==
    \E a, b \in DOMAIN passes :
        /\ a < b
        /\ passes[a].data.id # passes[b].data.id
        /\ passes[a].pc = "executing"
        /\ passes[b].pc = "done"
        /\ \E i \in DOMAIN trace[b] : IsDeliver(trace[b][i])

\* a pass in which something failed: loadOffering threw, or a handler threw
Failed(p) ==
    \/ passes[p].err # ""
    \/ passes[p].pc = "loadRejected"
    \/ \E i \in DOMAIN trace[p] : trace[p][i].ev = "throw"

Waiting(p) == passes[p].pc \in {"loadRejected", "importing", "afterAccept", "afterPayment"}

\* C11: once something has failed in a pass, the process goes on: the next
\* step of every other pass that waits for a settled promise can run and a
\* new event can be dispatched; and a step of one pass never changes what
\* another pass has emitted or where it stands
C11_ErrorLocality ==
    /\ [](\A a \in DOMAIN passes :
            Failed(a) =>
                /\ \A b \in DOMAIN passes \ {a} : Waiting(b) => ENABLED Step(b)
                /\ Len(passes) < MaxPasses => ENABLED (\E data \in Events : Deliver(data)))
    /\ [][\A b \in DOMAIN passes :
            (trace'[b] # trace[b] \/ passes'[b] # passes[b]) =>
                \A c \in DOMAIN passes \ {b} :
                    trace'[c] = trace[c] /\ passes'[c] = passes[c]]_vars

\* a pass has failed and is over while another pass, not failed, is under way
C11_Witness ==
    \E a, b \in DOMAIN passes :
        /\ a # b
        /\ Failed(a) /\ passes[a].pc = "done"
        /\ ~Failed(b) /\ Waiting(b)

\* the number of calls of handler h in pass p
Calls(p, h) == Len(SelectSeq(trace[p], LAMBDA e : e = Called(h)))

\* C12: a pass calls each handler at most once, also when a step of it has
\* failed, and offering.json of a name is read at most once per pass that
\* resolves the name
C12_AtMostOncePerPass ==
    /\ \A p \in DOMAIN passes : \A h \in HandlerNames : Calls(p, h) <= 1
    /\ \A n \in OfferingNames :
          io[n].reads <= Cardinality({p \in DOMAIN passes : passes[p].offeringName = n})

\* a pass in which executeJob threw is over, having called it once
C12_Witness ==
    \E p \in DOMAIN passes :
        /\ Has(p, Threw("executeJob"))
        /\ passes[p].pc = "done"
        /\ Calls(p, "executeJob") = 1

\* the contract between offering.json and handlers.ts
ContractLaw(requiredFunds, exports) ==
    (requiredFunds = "true") <=> ("requestAdditionalFunds" \in exports)

\* C13: no pass emits an accept for a named offering whose requiredFunds and
\* exported handlers violate the contract
C13_NoAcceptOnViolation ==
    \A p \in DOMAIN passes :
        (/\ Truthy(passes[p].offeringName)
         /\ \E i \in DOMAIN trace[p] : IsAccept(trace[p][i]))
            => ContractLaw(passes[p].requiredFunds, passes[p].exports)

\* C14: a REQUEST pass whose call of loadOffering threw has, once the catch
\* block has run, emitted one reject whose reason carries the message of
\* the error, and nothing else: no accept, no handler call
C14_LoadFailureRejects ==
    \A p \in RequestPasses :
        passes[p].err # "" =>
            trace[p] = IF passes[p].pc = "done"
                       THEN <<acceptOrRejectJob(FALSE, <<"Handler error: ", passes[p].err>>)>>
                       ELSE << >>

\* the offering directory does not exist, and the job has been rejected
C14_Witness ==
    \E p \in RequestPasses :
        /\ passes[p].offeringName = "swap"
        /\ passes[p].err = "Offering directory not found"
        /\ passes[p].pc = "done"
        /\ Len(trace[p]) = 1

\* what the handlers did in a pass: calls, returns and throws
HandlerEvents(p) == SelectSeq(trace[p], LAMBDA e : ~IsAction(e))

\* C15: when the same event is delivered a second time, the second pass runs
\* like the first: its next step is never held back, with the same handler
\* results it emits the same actions, and when the first pass delivered, a
\* second pass that met no failure and no refusal has called executeJob once
\* and delivered too
C15_NoDedup ==
    \A a, b \in DOMAIN passes :
        (a < b /\ passes[a].data = passes[b].data) =>
            /\ passes[b].pc # "done" => ENABLED Step(b)
            /\ (/\ passes[a].pc = "done"
                /\ passes[b].pc = "done"
                /\ HandlerEvents(a) = HandlerEvents(b)) => trace[a] = trace[b]
            /\ (/\ passes[b].pc = "done"
                /\ \E i \in DOMAIN trace[a] : IsDeliver(trace[a][i])
                /\ ~Failed(b)
                /\ ~Has(b, ReturnedBoolean("validateRequirements", "false")))
                  => /\ Calls(b, "executeJob") = 1
                     /\ \E i \in DOMAIN trace[b] : IsDeliver(trace[b][i])

\* the same event was delivered twice, and each pass has called executeJob
\* once and delivered
C15_Witness ==
    \E a, b \in DOMAIN passes :
        /\ a < b
        /\ passes[a].data = passes[b].data
        /\ \A p \in {a, b} :
              /\ Calls(p, "executeJob") = 1
              /\ \E i \in DOMAIN trace[p] : IsDeliver(trace[p][i])

\* the positions of the memos of an event whose nextPhase is NEGOTIATION
NegotiationMemos(data) ==
    {i \in 1..Len(data.memos) : data.memos[i].nextPhase = "NEGOTIATION"}

Oldest(S) == CHOOSE i \in S : \A j \in S : i <= j
Latest(S) == CHOOSE i \in S : \A j \in S : i >= j

\* the requirements a memo gives: none for an empty content, the parsed
\* content, or { raw: content } when the content is not JSON
MemoRequirements(memo) ==
    IF memo.content = "" THEN EmptyRequest
    ELSE IF JSONParse(memo.content).ok THEN JSONParse(memo.content).value
    ELSE [name |-> Absent, raw |-> memo.content]

\* C17 as stated: the requirements are those of the context when present,
\* else those of the latest memo with nextPhase = NEGOTIATION, else empty
C17_LatestMemoWins ==
    \A p \in DOMAIN passes :
        LET data == passes[p].data IN
        passes[p].requirements =
            IF data.context.serviceRequirements.present
            THEN data.context.serviceRequirements.value
            ELSE IF NegotiationMemos(data) = {} THEN EmptyRequest
            ELSE MemoRequirements(data.memos[Latest(NegotiationMemos(data))])

\* C17: the requirements are those of the context when present, else those
\* of the first memo with nextPhase = NEGOTIATION, else empty
C17_FirstMemoWins ==
    \A p \in DOMAIN passes :
        LET data == passes[p].data IN
        passes[p].requirements =
            IF data.context.serviceRequirements.present
            THEN data.context.serviceRequirements.value
            ELSE IF NegotiationMemos(data) = {} THEN EmptyRequest
            ELSE MemoRequirements(data.memos[Oldest(NegotiationMemos(data))])

\* two memos with nextPhase = NEGOTIATION give different requirements, and
\* the context gives none
C17_Witness ==
    \E p \in DOMAIN passes :
        LET data == passes[p].data IN
        /\ ~data.context.serviceRequirements.present
        /\ Cardinality(NegotiationMemos(data)) = 2
        /\ MemoRequirements(data.memos[1]) # MemoRequirements(data.memos[2])
        /\ passes[p].requirements = MemoRequirements(data.memos[1])

\* the offering name a memo carries: the name field of its JSON content
MemoOfferingName(memo) ==
    IF JSONParse(memo.content).ok /\ JSONParse(memo.content).value.name \in OfferingNames
    THEN JSONParse(memo.content).value.name
    ELSE Absent

\* C18: when the context of an event carries no offering name and its memos
\* with nextPhase = NEGOTIATION (there is one at least) all carry the name
\* of one offering, the event is routed to that offering
C18_NameFromMemo ==
    \A p \in DOMAIN passes :
        LET data == passes[p].data IN
        \A n \in OfferingNames :
            (/\ data.context.jobOfferingName = Absent
             /\ data.context.offeringName = Absent
             /\ NegotiationMemos(data) # {}
             /\ \A i \in NegotiationMemos(data) : MemoOfferingName(data.memos[i]) = n)
                => passes[p].offeringName = n

(***************************************************************************)
(* config.json: agents (lib/config.ts, lib/auth.ts, commands/agent.ts,     *)
(* commands/setup.ts)                                                      *)
(***************************************************************************)
MaxAgents == 2

\* agent ids are opaque strings given by the server: numbered here
AgentIds == 1..MaxAgents
AgentNames == {"alpha", "Alpha"}
ApiKeys == {"key1", "key2"}
Wallets == {"0xA", "0xB"}

\* String.prototype.toLowerCase
toLowerCase(name) == IF name = "Alpha" THEN "alpha" ELSE name

\* AgentKeyResponse: what the server returns for an agent
AgentKeyResponses ==
    [id: AgentIds, name: AgentNames, apiKey: ApiKeys, walletAddress: Wallets]

\* the answers of GET /api/agents/lite/keys: lists of agents of distinct ids
ServerLists ==
    {l \in UNION {[1..n -> AgentKeyResponses] : n \in 0..MaxAgents} :
        \A i, j \in DOMAIN l : i # j => l[i].id # l[j].id}

Ids(agents) == {agents[i].id : i \in DOMAIN agents}

\* Map.prototype.set(entry.id, entry) on a map held in insertion order
MapSet(merged, entry) ==
    IF entry.id \in Ids(merged)
    THEN [i \in DOMAIN merged |-> IF merged[i].id = entry.id THEN entry ELSE merged[i]]
    ELSE Append(merged, entry)

\* for (const a of localAgents) merged.set(a.id, a)
RECURSIVE MergeLocal(_, _)
MergeLocal(merged, localAgents) ==
    IF localAgents = << >> THEN merged
    ELSE MergeLocal(MapSet(merged, Head(localAgents)), Tail(localAgents))

\* (variant: the entry of a server agent is always inactive)
ServerEntryInactive(merged, s) ==
    [id |-> s.id, name |-> s.name, apiKey |-> s.apiKey,
     walletAddress |-> s.walletAddress, active |-> FALSE]

\* the entry built for a server agent: active: existing?.active ?? false
ServerEntry(merged, s) ==
    [id |-> s.id, name |-> s.name, apiKey |-> s.apiKey,
     walletAddress |-> s.walletAddress,
     active |-> \E i \in DOMAIN merged : merged[i].id = s.id /\ merged[i].active]

\* for (const s of serverAgents) merged.set(s.id, { ... })
RECURSIVE MergeServer(_, _)
MergeServer(merged, serverAgents) ==
    IF serverAgents = << >> THEN merged
    ELSE MergeServer(MapSet(merged, ServerEntry(merged, Head(serverAgents))),
                     Tail(serverAgents))

\* syncAgentsToConfig: the merged list, Array.from(merged.values())
syncAgentsToConfig(localAgents, serverAgents) ==
    MergeServer(MergeLocal(<< >>, localAgents), serverAgents)

\* the block `Add to local config and activate` of create and of setup
AddAndActivate(cfg, result) ==
    [agents |-> Append([i \in DOMAIN cfg.agents |->
                            [cfg.agents[i] EXCEPT !.active = FALSE]],
                       [id |-> result.id, name |-> result.name,
                        apiKey |-> result.apiKey,
                        walletAddress |-> result.walletAddress, active |-> TRUE]),
     key |-> result.apiKey]

\* setActiveAgent(name): the config written, or the config as it is when no
\* agent has that name
setActiveAgent(cfg, name) ==
    LET found == {i \in DOMAIN cfg.agents :
                    toLowerCase(cfg.agents[i].name) = toLowerCase(name)}
    IN  IF found = {} THEN cfg
        ELSE LET target == cfg.agents[CHOOSE i \in found : \A j \in found : i <= j] IN
             [agents |-> [i \in DOMAIN cfg.agents |->
                             [cfg.agents[i] EXCEPT
                                 !.active = (cfg.agents[i].name = target.name)]],
              key |-> target.apiKey]

\* activateAgent(agent)
activateAgent(cfg, agent) ==
    [agents |-> [i \in DOMAIN cfg.agents |->
                    [cfg.agents[i] EXCEPT !.active = (cfg.agents[i].id = agent.id)]],
     key |-> agent.apiKey]

otherVars == <<disk, cli, registered, passes, trace, modules, io, toolVars>>

Synced(serverAgents) == [op |-> "sync", before |-> config.agents, server |-> serverAgents]

\* what createAgentApi returns: a new agent, whose id no local agent has
NewAgents == {r \in AgentKeyResponses : r.id \notin Ids(config.agents)}

\* One command of the CLI runs at a time: agent create, switch and list run
\* when no setup is under way.
\* `acp agent create <name>`, after createAgentApi has returned
AgentCreate(result) ==
    /\ setup.pc = "idle"
    /\ Len(config.agents) < MaxAgents
    /\ result \in NewAgents
    /\ config' = AddAndActivate(config, result)
    /\ last' = NoSync
    /\ UNCHANGED <<setup, otherVars>>

\* `acp agent switch <name>`
switchAgent(name) ==
    /\ setup.pc = "idle"
    /\ config' = setActiveAgent(config, name)
    /\ last' = NoSync
    /\ UNCHANGED <<setup, otherVars>>

\* `acp agent list`, after fetchAgents has returned
AgentList(serverAgents) ==
    /\ setup.pc = "idle"
    /\ config' = [config EXCEPT !.agents = syncAgentsToConfig(@, serverAgents)]
    /\ last' = Synced(serverAgents)
    /\ UNCHANGED <<setup, otherVars>>

\* selectOrCreateAgent up to the question `Select agent`: an empty answer of
\* the server (or a failed fetch) leaves the config as it is
SetupFetch(serverAgents) ==
    /\ setup.pc = "idle"
    /\ LET agents == IF serverAgents # << >>
                     THEN syncAgentsToConfig(config.agents, serverAgents)
                     ELSE config.agents
       IN
       /\ config' = IF serverAgents # << >>
                     THEN [config EXCEPT !.agents = agents]
                     ELSE config
       /\ last' = IF serverAgents # << >> THEN Synced(serverAgents) ELSE NoSync
       /\ setup' = [pc |-> IF agents # << >> THEN "choosing" ELSE "naming",
                    agents |-> agents]
    /\ UNCHANGED otherVars

\* the user answers: one of the agents listed, or anything else (create)
SetupChoose(choiceNum) ==
    /\ setup.pc = "choosing"
    /\ IF choiceNum >= 1 /\ choiceNum <= Len(setup.agents)
       THEN /\ config' = activateAgent(config, setup.agents[choiceNum])
            /\ setup' = SetupIdle
       ELSE /\ config' = config
            /\ setup' = [pc |-> "naming", agents |-> << >>]
    /\ last' = NoSync
    /\ UNCHANGED otherVars

\* setup, after createAgentApi has returned
SetupCreate(result) ==
    /\ setup.pc = "naming"
    /\ Len(config.agents) < MaxAgents
    /\ result \in NewAgents
    /\ config' = AddAndActivate(config, result)
    /\ setup' = SetupIdle
    /\ last' = NoSync
    /\ UNCHANGED otherVars

\* setup: no name entered, or createAgentApi failed
SetupSkip ==
    /\ setup.pc = "naming"
    /\ setup' = SetupIdle
    /\ last' = NoSync
    /\ UNCHANGED <<config, otherVars>>

InitConfig ==
    /\ disk = [n \in OfferingNames |-> MissingEntry]
    /\ cli = CliIdle
    /\ registered = {}
    /\ passes = << >>
    /\ trace = << >>
    /\ modules = [n \in OfferingNames |-> NotImported]
    /\ io = [n \in OfferingNames |-> [reads |-> 0, evals |-> 0]]
    /\ InitAgents

\* the answers of the server in the runs of the commands: one wallet address
ConfigResponses == {r \in AgentKeyResponses : r.walletAddress = "0xA"}
ConfigServerLists ==
    {l \in ServerLists : \A i \in DOMAIN l : l[i] \in ConfigResponses}

NextConfig ==
    \/ \E result \in ConfigResponses : AgentCreate(result)
    \/ \E name \in AgentNames \cup {"beta"} : switchAgent(name)
    \/ \E serverAgents \in ConfigServerLists : AgentList(serverAgents)
    \/ \E serverAgents \in ConfigServerLists : SetupFetch(serverAgents)
    \/ \E choiceNum \in 1..(MaxAgents + 1) : SetupChoose(choiceNum)
    \/ \E result \in ConfigResponses : SetupCreate(result)
    \/ SetupSkip

SpecConfig == InitConfig /\ [][NextConfig]_vars

\* C19: in every state of config.json the commands can reach,
\* LITE_AGENT_API_KEY is the apiKey of the agent whose active flag is true
C19_KeyOfActiveAgent ==
    \A i \in DOMAIN config.agents :
        config.agents[i].active => config.key = config.agents[i].apiKey

(***************************************************************************)
(* syncAgentsToConfig on any local list                                    *)
(***************************************************************************)
AgentEntries ==
    [id: AgentIds, name: AgentNames, apiKey: ApiKeys, walletAddress: Wallets,
     active: BOOLEAN]

\* the agents arrays config.json can hold: create adds an agent of a new id
\* and the merge keeps one entry per id, so the ids of a list are distinct
LocalLists ==
    {l \in UNION {[1..n -> AgentEntries] : n \in 0..MaxAgents} :
        \A i, j \in DOMAIN l : i # j => l[i].id # l[j].id}

InitSync ==
    /\ disk = [n \in OfferingNames |-> MissingEntry]
    /\ cli = CliIdle
    /\ registered = {}
    /\ passes = << >>
    /\ trace = << >>
    /\ modules = [n \in OfferingNames |-> NotImported]
    /\ io = [n \in OfferingNames |-> [reads |-> 0, evals |-> 0]]
    /\ config \in [agents: LocalLists, key: ApiKeys \cup {NoKey}]
    /\ setup = SetupIdle
    /\ last = NoSync
    /\ InitTools

\* one sync with any answer of the server, and the same sync once more
NextSync ==
    \E serverAgents \in ServerLists :
        /\ \/ last.op = "none"
           \/ serverAgents = last.server /\ last.before # config.agents
        /\ AgentList(serverAgents)

SpecSync == InitSync /\ [][NextSync]_vars

\* the entry of id in a list of agents
EntryOf(agents, id) == agents[CHOOSE i \in DOMAIN agents : agents[i].id = id]

\* C20: after syncAgentsToConfig the list has one entry per id of the local
\* and the server agents; the entry of a server id carries the server's name,
\* apiKey and walletAddress and the active flag of the local entry of that id
\* (false without one); the entries of the other local ids are as they were;
\* the same sync once more gives the same list
C20_SyncMergesById ==
    last.op = "sync" =>
        LET before == last.before
            server == last.server
            after == config.agents
        IN
        /\ \A i, j \in DOMAIN after : i # j => after[i].id # after[j].id
        /\ Ids(after) = Ids(before) \cup Ids(server)
        /\ \A k \in DOMAIN server :
              LET e == EntryOf(after, server[k].id) IN
              /\ e.name = server[k].name
              /\ e.apiKey = server[k].apiKey
              /\ e.walletAddress = server[k].walletAddress
              /\ e.active = IF server[k].id \in Ids(before)
                            THEN EntryOf(before, server[k].id).active
                            ELSE FALSE
        /\ \A i \in DOMAIN before :
              before[i].id \notin Ids(server) =>
                  EntryOf(after, before[i].id) = before[i]
        /\ syncAgentsToConfig(after, server) = after

\* a sync met a local agent, active, for which the server gives another
\* apiKey and another wallet, and a local agent the server does not have
C20_Witness ==
    /\ last.op = "sync"
    /\ \E i \in DOMAIN last.before, k \in DOMAIN last.server :
          /\ last.before[i].id = last.server[k].id
          /\ last.before[i].active
          /\ last.before[i].apiKey # last.server[k].apiKey
          /\ last.before[i].walletAddress # last.server[k].walletAddress
    /\ \E i \in DOMAIN last.before : last.before[i].id \notin Ids(last.server)
    /\ Len(config.agents) = 2

\* ---------------------------------------------------------------------
\* acp agent switch

\* the agents `name` matches: those whose name equals it, case ignored
Matched(agents, name) ==
    {i \in DOMAIN agents : toLowerCase(agents[i].name) = toLowerCase(name)}

\* C21: a switch that finds the name leaves exactly one agent active, an
\* agent the name matches, every other agent inactive and
\* LITE_AGENT_API_KEY equal to that agent's apiKey; a switch that finds no
\* agent of that name leaves config.json as it was
C21_SwitchActivatesExactlyOne ==
    [][\A name \in AgentNames \cup {"beta"} :
          switchAgent(name) =>
             IF Matched(config.agents, name) = {}
               THEN config' = config
               ELSE \E t \in Matched(config.agents, name) :
                      /\ DOMAIN config'.agents = DOMAIN config.agents
                      /\ \A i \in DOMAIN config.agents :
                            config'.agents[i] =
                               [config.agents[i] EXCEPT !.active = (i = t)]
                      /\ config'.key = config.agents[t].apiKey]_vars

\* ---------------------------------------------------------------------
\* offering:create

\* what createOffering collected in allErrors for the offering it ran on
CollectedErrors(name) ==
    LET e == disk[name]
        jsonErrors == validateOfferingJson(e.json)
    IN  jsonErrors \o
        validateHandlers(e.handlers,
                         IF jsonErrors = << >> THEN e.json.obj.requiredFunds
                                               ELSE "absent")

\* C22: createOffering calls createJobOffering only when validation
\* collected no error; a run that collected an error (a requiredFunds /
\* requestAdditionalFunds mismatch included) ends without registering; and
\* the seller process is started only after a successful registration
C22_RegistrationGated ==
    /\ cli.pc \in {"registering", "exit0"} =>
          /\ disk[cli.name].dir
          /\ CollectedErrors(cli.name) = << >>
          /\ cli.errors = << >>
    /\ cli.errors # << >> => cli.pc = "exit1" /\ registered = {}
    /\ cli.pc = "exit0" <=> registered # {}
    /\ \A payload \in registered :
          payload = buildAcpPayload(cli.name, disk[cli.name].json)

\* a valid offering was registered and startSellerProcess reached
C22_Witness ==
    /\ cli.pc = "exit0"
    /\ registered # {}
    /\ CollectedErrors(cli.name) = << >>

\* ---------------------------------------------------------------------
\* The TRANSACTION phase, the other phases, a failing funds request

\* the handlers pass p called
CalledHandlers(p) ==
    {trace[p][i].handler : i \in {j \in DOMAIN trace[p] : IsCall(trace[p][j])}}

\* the offering pass p names can be loaded and exports all three handlers
FullOffering(p) ==
    /\ passes[p].exports = HandlerNames
    /\ passes[p].requiredFunds = "true"

\* C23: a pass for a TRANSACTION-phase job emits no accept-or-reject and no
\* payment request, whatever happens in it; validateRequirements and
\* requestAdditionalFunds are not called; the only action it can emit is
\* deliver
C23_TransactionOnlyDelivers ==
    \A p \in TransactionPasses :
        /\ \A i \in DOMAIN trace[p] :
              IsAction(trace[p][i]) => IsDeliver(trace[p][i])
        /\ CalledHandlers(p) \subseteq {"executeJob"}
        /\ Len(Actions(p)) <= 1

\* a TRANSACTION pass delivered for an offering that requires funds and
\* exports validateRequirements and requestAdditionalFunds, and another one
\* ended on a throwing executeJob
C23_Witness ==
    /\ \E p \in TransactionPasses :
          /\ FullOffering(p)
          /\ passes[p].pc = "done"
          /\ Len(Actions(p)) = 1
    /\ \E p \in TransactionPasses :
          /\ Has(p, Threw("executeJob"))
          /\ passes[p].pc = "done"

\* pass p did nothing: no action, no handler call, no resolution
Untouched(p) ==
    /\ trace[p] = << >>
    /\ passes[p].pc = "done"
    /\ passes[p].exports = {}
    /\ passes[p].requiredFunds = Absent
    /\ passes[p].err = ""

\* no offering was read or imported
NothingResolved ==
    \A n \in OfferingNames : io[n].reads = 0 /\ io[n].evals = 0 /\ modules[n] = NotImported

\* C24: a TRANSACTION-phase job for which no offering name can be resolved
\* gets no action, no handler call and no offering resolution
C24_TransactionWithoutName ==
    /\ \A p \in TransactionPasses :
          ~Truthy(passes[p].offeringName) => Untouched(p)
    /\ (\A p \in DOMAIN passes : passes[p].data.phase = "TRANSACTION"
                                  /\ ~Truthy(passes[p].offeringName))
          => NothingResolved

C24_Witness ==
    /\ Len(passes) = MaxPasses
    /\ \A p \in DOMAIN passes : /\ passes[p].data.phase = "TRANSACTION"
                                /\ ~Truthy(passes[p].offeringName)
                                /\ passes[p].pc = "done"
    /\ loadOfferingStart(disk["donation"]).err = ""

\* C25: a job in a phase other than REQUEST and TRANSACTION gets no action,
\* no offering resolution and no handler call, even when it names an
\* offering that could be loaded
C25_OtherPhasesIgnored ==
    /\ \A p \in DOMAIN passes :
          passes[p].data.phase \notin {"REQUEST", "TRANSACTION"} => Untouched(p)
    /\ (\A p \in DOMAIN passes :
            passes[p].data.phase \notin {"REQUEST", "TRANSACTION"})
          => NothingResolved

C25_Witness ==
    /\ Len(passes) = MaxPasses
    /\ \E p \in DOMAIN passes : passes[p].data.phase = "NEGOTIATION"
    /\ \E p \in DOMAIN passes : passes[p].data.phase = "OTHER"
    /\ \A p \in DOMAIN passes : /\ passes[p].data.phase \notin {"REQUEST", "TRANSACTION"}
                                /\ passes[p].offeringName = "donation"
    /\ loadOfferingStart(disk["donation"]).err = ""
    /\ disk["donation"].handlers.decl["executeJob"] # "none"

\* C26: when requestAdditionalFunds throws in a REQUEST pass, the error is
\* caught and a reject is emitted (after the accept already sent);
\* executeJob is not called, and no payment request and no deliver are
\* emitted
C26_FundsFailureRejects ==
    \A p \in RequestPasses :
        Has(p, Threw("requestAdditionalFunds")) =>
           /\ passes[p].pc = "done"
           /\ Len(Actions(p)) = 2
           /\ IsAccept(Actions(p)[1])
           /\ Actions(p)[2] = acceptOrRejectJob(FALSE, <<"Handler error: ", ErrorMessage>>)
           /\ "executeJob" \notin CalledHandlers(p)
           /\ Calls(p, "requestAdditionalFunds") = 1

C26_Witness ==
    \E p \in RequestPasses :
        /\ Has(p, Threw("requestAdditionalFunds"))
        /\ passes[p].requiredFunds = "true"
        /\ IsReject(Actions(p)[Len(Actions(p))])

\* ---------------------------------------------------------------------
\* validateOfferingJson

Fields == {"name", "description", "jobFee", "requiredFunds"}

\* the field-level rules: name and description are non-empty strings,
\* jobFee is a non-negative number, requiredFunds is a boolean
Violated(obj, f) ==
    IF f = "requiredFunds" THEN obj[f] \notin {"true", "false"}
                           ELSE obj[f] # "ok"

\* the messages validateOfferingJson has for a field
ErrorsAbout(f) ==
    IF f = "name" THEN {"must have a name field", "name cannot be empty"}
    ELSE IF f = "description"
      THEN {"must have a description field", "description cannot be empty"}
    ELSE IF f = "jobFee"
      THEN {"must have a jobFee field", "jobFee must be a number",
            "jobFee must be non-negative"}
    ELSE {"must have a requiredFunds field", "requiredFunds must be a boolean"}

Reported(f) ==
    {i \in DOMAIN cli.errors : cli.errors[i] \in ErrorsAbout(f)}

\* offering.json holds a JSON value: the file exists and JSON.parse accepts it
Parsable(json) == json.kind \in {"object", "null"}

\* C27: for every parsable offering.json the errors of validateOfferingJson
\* hold one error for each field whose rule is violated and none for the
\* other fields, all of them together; the result is valid exactly when no
\* rule is violated
C27_EveryViolationReported ==
    (cli.pc # "idle" /\ Parsable(disk[cli.name].json)) =>
        \A f \in Fields :
            Cardinality(Reported(f)) =
                IF Violated(disk[cli.name].json.obj, f) THEN 1 ELSE 0

\* ---------------------------------------------------------------------
\* An offering without validateRequirements

\* pass p loaded an offering whose module does not export validateRequirements
LoadedWithoutValidation(p) ==
    /\ Truthy(passes[p].offeringName)
    /\ passes[p].pc \in {"afterAccept", "afterPayment", "executing", "done"}
    /\ passes[p].err = ""
    /\ "executeJob" \in passes[p].exports
    /\ "validateRequirements" \notin passes[p].exports

\* handlers.ts is in order but for validateRequirements, which its text lacks
OnlyValidationMissing(entry) ==
    /\ entry.handlers.exists
    /\ ~TextHasHandler(entry.handlers, "validateRequirements")
    /\ TextHasHandler(entry.handlers, "executeJob")
    /\ entry.json.obj.requiredFunds \in {"true", "false"}
    /\ (entry.json.obj.requiredFunds = "true")
          <=> TextHasHandler(entry.handlers, "requestAdditionalFunds")

\* C28: the absence of validateRequirements is never an error: handlers.ts
\* without it passes validateHandlers with a warning and no error, and a
\* REQUEST pass for such an offering emits the accept as its first event,
\* with no validation step
C28_ValidationOptional ==
    /\ \A n \in OfferingNames :
          OnlyValidationMissing(disk[n]) =>
             /\ validateHandlers(disk[n].handlers,
                                 disk[n].json.obj.requiredFunds) = << >>
             /\ validateHandlersWarnings(disk[n].handlers)
                   = <<"validateRequirements handler not found">>
    /\ \A p \in RequestPasses :
          LoadedWithoutValidation(p) =>
             /\ trace[p][1] = acceptOrRejectJob(TRUE, <<"Job accepted">>)
             /\ "validateRequirements" \notin CalledHandlers(p)
             /\ ~ \E i \in DOMAIN trace[p] :
                    trace[p][i] = acceptOrRejectJob(FALSE, <<"Validation failed">>)

C28_Witness ==
    \E p \in RequestPasses :
        /\ LoadedWithoutValidation(p)
        /\ OnlyValidationMissing(disk[passes[p].offeringName])
        /\ passes[p].pc = "done"
        /\ \E i \in DOMAIN trace[p] : IsDeliver(trace[p][i])

\* ---------------------------------------------------------------------
\* An offering repaired while the seller runs

\* loadOffering has nothing to object to in the files of the offering
Loadable(entry) ==
    /\ loadOfferingStart(entry).err = ""
    /\ "executeJob" \in ModuleExports(entry.handlers)

\* the files of an offering that fails to load are put in order while no
\* job is being processed; every call of loadOffering reads the file
\* system anew
FixOffering(n, entry) ==
    /\ \A p \in DOMAIN passes : passes[p].pc = "done"
    /\ ~Loadable(disk[n])
    /\ Loadable(entry)
    /\ disk' = [disk EXCEPT ![n] = entry]
    /\ UNCHANGED <<cli, registered, passes, trace, modules, io, agentVars>>

NextFix ==
    \/ Next
    \/ \E entry \in RuntimeEntries : FixOffering("donation", entry)

SpecFix == Init /\ [][NextFix]_vars

\* C29: failed resolutions are not cached: a resolution of an offering
\* whose files are in order succeeds, whatever earlier resolutions of that
\* name ended with before the files were repaired
C29_FixedOfferingLoads ==
    [][\A p \in 1..MaxPasses, valid \in {"true", "false", "throw"} :
          (ImportResolves(p, valid) /\ Loadable(disk[passes[p].offeringName]))
             => passes'[p].err = ""]_vars

\* ---------------------------------------------------------------------
\* Termination of a pass

\* the code of pass p that runs without waiting for a handler: the event
\* loop runs it once the awaited file-system or protocol call has settled
StepBeforeExecute(p) ==
    \/ LoadFails(p)
    \/ \E valid \in {"true", "false", "throw"} : ImportResolves(p, valid)
    \/ \E funds \in Outcomes(FundsResults) : AfterAccept(p, funds)
    \/ AfterPayment(p)

\* the promise of the executeJob call of pass p settles
ExecuteSettles(p) ==
    /\ p \in DOMAIN passes
    /\ \E result \in Outcomes(ExecuteJobResults(passes[p].requirements)) :
          ExecuteJobSettles(p, result)

\* Every awaited call other than a handler settles and its continuation
\* runs; every executeJob call returns or throws, except that the one of
\* the first pass may never return
Fairness ==
    /\ \A p \in 1..MaxPasses : WF_vars(StepBeforeExecute(p))
    /\ \A p \in 2..MaxPasses : WF_vars(ExecuteSettles(p))

SpecLive == Init /\ [][Next]_vars /\ Fairness

\* pass p is for a REQUEST job with a resolved offering name
NamedRequest(p) ==
    /\ p \in RequestPasses
    /\ Truthy(passes[p].offeringName)

\* pass p has ended and the last action it emitted is a deliver or a reject
Terminal(p) ==
    /\ p \in DOMAIN passes
    /\ passes[p].pc = "done"
    /\ Actions(p) # << >>
    /\ LET a == Actions(p)[Len(Actions(p))] IN IsDeliver(a) \/ IsReject(a)

\* pass p waits for the promise of its executeJob call
InExecuteJob(p) ==
    /\ p \in DOMAIN passes
    /\ passes[p].pc = "executing"

\* C30: when every handler call and protocol call of a pass returns or
\* throws, a REQUEST pass with a resolved offering name eventually ends
\* with a deliver or a reject as its last action; a pass whose executeJob
\* never returns waits in that call for ever, and the other passes still
\* end
C30_PassTerminates ==
    /\ \A p \in 2..MaxPasses : NamedRequest(p) ~> Terminal(p)
    /\ NamedRequest(1) ~> (Terminal(1) \/ []InExecuteJob(1))

\* the second pass has ended with its terminal action while the first is
\* still inside the executeJob call it made earlier
C30_Witness ==
    /\ Len(passes) >= 2
    /\ NamedRequest(1) /\ NamedRequest(2)
    /\ InExecuteJob(1)
    /\ Terminal(2)

\* ---------------------------------------------------------------------
\* The actions of a REQUEST pass

\* the kind of a protocol action
KindOf(e) ==
    IF IsDeliver(e) THEN "deliver"
    ELSE IF IsPayment(e) THEN "payment-request"
    ELSE IF IsAccept(e) THEN "accept"
    ELSE "reject"

\* the kinds of the actions pass p emitted, in order
ActionKinds(p) == [i \in DOMAIN Actions(p) |-> KindOf(Actions(p)[i])]

CompleteSequences ==
    { <<"reject">>,
      <<"accept", "deliver">>,
      <<"accept", "payment-request", "deliver">>,
      <<"accept", "reject">>,
      <<"accept", "payment-request", "reject">> }

IsPrefix(s, t) == Len(s) <= Len(t) /\ \A i \in DOMAIN s : s[i] = t[i]

\* C32: the actions of a REQUEST pass with a resolved offering name are, when
\* the pass has ended, exactly one of [reject], [accept, deliver],
\* [accept, payment-request, deliver], [accept, reject],
\* [accept, payment-request, reject], and before that a beginning of one
\* of them: no deliver together with a reject, nothing after either
C32_ActionSequences ==
    \A p \in RequestPasses :
        Truthy(passes[p].offeringName) =>
           /\ \E t \in CompleteSequences : IsPrefix(ActionKinds(p), t)
           /\ passes[p].pc = "done" => ActionKinds(p) \in CompleteSequences
           /\ \A i \in DOMAIN Actions(p) :
                 KindOf(Actions(p)[i]) \in {"deliver", "reject"} => i = Len(Actions(p))

\* two passes that ended with different complete sequences, one of them
\* with a payment request followed by a reject
C32_Witness ==
    /\ \E p \in RequestPasses :
          /\ passes[p].pc = "done"
          /\ ActionKinds(p) = <<"accept", "payment-request", "reject">>
    /\ \E p \in RequestPasses :
          /\ passes[p].pc = "done"
          /\ ActionKinds(p) = <<"accept", "payment-request", "deliver">>

\* C33: when validateRequirements throws in a REQUEST pass the job is
\* rejected exactly once, with a reason that holds the error message; no
\* accept is emitted and neither requestAdditionalFunds nor executeJob is
\* called
C33_ValidationThrowRejects ==
    \A p \in RequestPasses :
        Has(p, Threw("validateRequirements")) =>
           /\ passes[p].pc = "done"
           /\ Actions(p) = <<acceptOrRejectJob(FALSE, <<"Handler error: ", ErrorMessage>>)>>
           /\ CalledHandlers(p) = {"validateRequirements"}

C33_Witness ==
    \E p \in RequestPasses :
        /\ Has(p, Threw("validateRequirements"))
        /\ FullOffering(p)
        /\ Len(Actions(p)) = 1

\* ---------------------------------------------------------------------
\* The active flag

\* the entries of agents[] with active = true
ActiveAgents(cfg) == {i \in DOMAIN cfg.agents : cfg.agents[i].active}

\* C34: in every config.json the commands can reach from the empty
\* configuration (agent create, agent switch, the agent selection of setup,
\* the server sync), at most one entry of agents[] is active, also when two
\* agents share a name or differ only in letter case
C34_AtMostOneActive ==
    Cardinality(ActiveAgents(config)) <= 1

\* ---------------------------------------------------------------------
\* Requirements from a memo

\* the values resolveServiceRequirements can return
RequirementValues ==
    {EmptyRequest, AdaRequest, [name |-> "donation", raw |-> Absent]}
    \cup {[name |-> Absent, raw |-> c] : c \in MemoContents \ {""}}

\* the requirements of pass p come from a memo: the context carries none
\* and a memo with nextPhase = NEGOTIATION exists whose content is not empty
FromMemo(p) ==
    /\ ~passes[p].data.context.serviceRequirements.present
    /\ NegotiationMemos(passes[p].data) # {}
    /\ passes[p].data.memos[Oldest(NegotiationMemos(passes[p].data))].content # ""

\* C37: requirements taken from a negotiation memo are the parsed content
\* when the content is JSON and { raw: content } when it is not; for every
\* context and every list of memos a value is returned; the event is left
\* as it was delivered
C37_MemoFallbackTotal ==
    \A p \in DOMAIN passes :
        /\ passes[p].requirements \in RequirementValues
        /\ passes[p].data \in ExtractEvents
        /\ FromMemo(p) =>
             LET content ==
                   passes[p].data.memos[Oldest(NegotiationMemos(passes[p].data))].content
             IN  passes[p].requirements =
                    IF JSONParse(content).ok THEN JSONParse(content).value
                    ELSE [name |-> Absent, raw |-> content]

\* the memo the requirements come from holds text that is not JSON
C37_Witness ==
    \E p \in DOMAIN passes :
        /\ FromMemo(p)
        /\ passes[p].requirements = [name |-> Absent, raw |-> "hello"]

(***************************************************************************)
(* The session token                                                       *)
(*                                                                         *)
(* A token is absent, a string that getJwtExpiry cannot decode, or a JWT   *)
(* whose exp claim is a number.  Time is counted in ticks of the clock.    *)
(***************************************************************************)
MaxTime == 3
MaxAttempts == 2

Times == 0..MaxTime
Tokens ==
    {NoToken, [kind |-> "malformed", exp |-> 0]} \cup [kind: {"jwt"}, exp: Times]

\* what the auth-status endpoint answers with: a token of any kind
ServerTokens == Tokens \ {NoToken}

\* getJwtExpiry(token): the expiry, or null
NoExpiry == 0 - 1
getJwtExpiry(token) == IF token.kind = "jwt" THEN token.exp ELSE NoExpiry

\* (variant of getValidSessionToken: the expiry is not compared with the clock)
getValidSessionTokenAnyExpiry(stored, now) ==
    IF stored.kind = "absent" THEN NoToken
    ELSE IF getJwtExpiry(stored) = NoExpiry THEN NoToken
    ELSE stored

\* getValidSessionToken(): the stored token, or null (NoToken)
getValidSessionToken(stored, now) ==
    IF stored.kind = "absent" THEN NoToken
    ELSE IF getJwtExpiry(stored) = NoExpiry \/ getJwtExpiry(stored) <= now THEN NoToken
    ELSE stored

sessionOther ==
    <<disk, cli, registered, passes, trace, modules, io, config, setup, last,
      sim, seller>>

\* time passes while a command waits
Tick ==
    /\ session.pc \in {"idle", "login", "afterLogin"}
    /\ session.now < MaxTime
    /\ session' = [session EXCEPT !.now = @ + 1]
    /\ UNCHANGED sessionOther

\* ensureSession up to its return or to `await interactiveLogin(rl)`
ensureSession ==
    /\ session.pc = "idle"
    /\ LET existing == getValidSessionToken(session.stored, session.now) IN
       session' = IF existing # NoToken
                  THEN [session EXCEPT !.pc = "returned", !.existing = existing,
                                       !.result = existing]
                  ELSE [session EXCEPT !.pc = "login"]
    /\ UNCHANGED sessionOther

\* one round of the loop of interactiveLogin that stores nothing: no login
\* link, a failed status check, or a status without token
LoginRetry ==
    /\ session.pc = "login"
    /\ session.attempts < MaxAttempts
    /\ session' = [session EXCEPT !.attempts = @ + 1]
    /\ UNCHANGED sessionOther

\* the round in which getAuthStatus answers with a token: storeSessionToken,
\* whose writeConfig may fail without a word (written = FALSE)
LoginDone(token, written) ==
    /\ session.pc = "login"
    /\ session' = [session EXCEPT !.pc = "afterLogin",
                                  !.fresh = token,
                                  !.stored = IF written THEN token ELSE @]
    /\ UNCHANGED sessionOther

\* ensureSession after interactiveLogin returned
AfterLogin ==
    /\ session.pc = "afterLogin"
    /\ LET token == getValidSessionToken(session.stored, session.now) IN
       session' = IF token = NoToken
                  THEN [session EXCEPT !.pc = "fatal"]
                  ELSE [session EXCEPT !.pc = "returned", !.result = token]
    /\ UNCHANGED sessionOther

InitSession ==
    /\ disk = [n \in OfferingNames |-> MissingEntry]
    /\ cli = CliIdle
    /\ registered = {}
    /\ passes = << >>
    /\ trace = << >>
    /\ modules = [n \in OfferingNames |-> NotImported]
    /\ io = [n \in OfferingNames |-> [reads |-> 0, evals |-> 0]]
    /\ config = NoConfig
    /\ setup = SetupIdle
    /\ last = NoSync
    /\ sim = SimIdle
    /\ seller = SellerIdle
    /\ \E token \in Tokens : session = [SessionIdle EXCEPT !.stored = token]

NextSession ==
    \/ Tick
    \/ ensureSession
    \/ LoginRetry
    \/ \E token \in ServerTokens, written \in BOOLEAN : LoginDone(token, written)
    \/ AfterLogin

SpecSession == InitSession /\ [][NextSession]_vars

\* a token is valid at a time: present, with an expiry that can be decoded
\* and has not passed
ValidAt(token, now) == token.kind = "jwt" /\ token.exp > now

\* C31: ensureSession returns only a valid session token.  A valid stored
\* token is returned at once, with no login; otherwise the login flow runs
\* and the value returned is the token it stored, or the command exits
\* fatally when no valid token is stored after the login
C31_SessionTokenValid ==
    /\ session.pc = "returned" =>
          /\ ValidAt(session.result, session.now)
          /\ session.result = session.stored
          /\ \/ session.existing # NoToken /\ session.fresh = NoToken
                   /\ session.attempts = 0 /\ session.result = session.existing
             \/ session.existing = NoToken /\ session.result = session.fresh
    /\ session.pc \in {"login", "afterLogin", "fatal"} =>
          session.existing = NoToken
    /\ session.pc = "fatal" =>
          /\ session.fresh # NoToken
          /\ ~ValidAt(session.stored, session.now)

\* a login replaced an expired token and the fresh token was returned
C31_Witness ==
    /\ session.pc = "returned"
    /\ session.fresh # NoToken
    /\ session.result = session.fresh
    /\ session.attempts > 0

(***************************************************************************)
(* process-job.ts: the local job simulator.  One run of the script is one  *)
(* call of processJob; its protocol methods are stubs that log.            *)
(***************************************************************************)
\* jobFee of a valid offering.json is some non-negative number
MaxFee == 2
Fees == 0..MaxFee

NoSymbol == "none"

SimEvent(ev, text) ==
    [ev |-> ev, text |-> text, jobFee |-> 0, additionalFunds |-> 0,
     token |-> NoSymbol, total |-> 0]

\* requestFundsMemo(jobId, jobFee, additionalFunds, token): the token is
\* printed when additionalFunds > 0, the total is jobFee + additionalFunds
requestFundsMemo(jobFee, additionalFunds, token) ==
    [ev |-> "requestFundsMemo", text |-> "", jobFee |-> jobFee,
     additionalFunds |-> additionalFunds, token |-> token,
     total |-> jobFee + additionalFunds]

\* what requestAdditionalFunds returns in the simulator
SimFundsResults ==
    FundsResults \cup {[amount |-> 0, ca |-> "0xToken", symbol |-> "TKN"]}

\* (variant of FundsStep: no memo for an offering that requires no funds)
FundsStepMemoOnlyWithFunds(requiredFunds, exports, jobFee, funds) ==
    IF requiredFunds = "true"
    THEN IF "requestAdditionalFunds" \notin exports
         THEN [pc |-> "done",
               out |-> <<SimEvent("reject", "requestAdditionalFunds is missing")>>]
         ELSE IF funds.throws
         THEN [pc |-> "threw", out |-> <<SimEvent("call", "requestAdditionalFunds")>>]
         ELSE [pc |-> "executing",
               out |-> <<SimEvent("call", "requestAdditionalFunds"),
                         requestFundsMemo(jobFee, funds.value.amount, funds.value.symbol),
                         SimEvent("call", "executeJob")>>]
    ELSE IF "requestAdditionalFunds" \in exports
         THEN [pc |-> "done",
               out |-> <<SimEvent("reject", "requestAdditionalFunds was provided")>>]
         ELSE [pc |-> "executing", out |-> <<SimEvent("call", "executeJob")>>]

\* processJob, step 3 up to the call of executeJob (lines 145-183)
FundsStep(requiredFunds, exports, jobFee, funds) ==
    IF requiredFunds = "true"
    THEN IF "requestAdditionalFunds" \notin exports
         THEN [pc |-> "done",
               out |-> <<SimEvent("reject", "requestAdditionalFunds is missing")>>]
         ELSE IF funds.throws
         THEN [pc |-> "threw", out |-> <<SimEvent("call", "requestAdditionalFunds")>>]
         ELSE [pc |-> "executing",
               out |-> <<SimEvent("call", "requestAdditionalFunds"),
                         requestFundsMemo(jobFee, funds.value.amount, funds.value.symbol),
                         SimEvent("call", "executeJob")>>]
    ELSE IF "requestAdditionalFunds" \in exports
         THEN [pc |-> "done",
               out |-> <<SimEvent("reject", "requestAdditionalFunds was provided")>>]
         ELSE [pc |-> "executing",
               out |-> <<requestFundsMemo(jobFee, 0, NoSymbol),
                         SimEvent("call", "executeJob")>>]

simOther ==
    <<disk, cli, registered, passes, trace, modules, io, config, setup, last,
      session, seller>>

\* processJob up to the return of `await loadOffering(offeringName)`, in a
\* fresh process (nothing is imported yet); a throw of loadOffering ends the
\* script through the catch of main.  jobFee is the number in offering.json
SimLoad(name, jobFee) ==
    /\ sim.pc = "idle"
    /\ LET start == loadOfferingStart(disk[name])
           exports == ModuleExports(disk[name].handlers)
       IN
       sim' = IF start.err # "" \/ loadOfferingFinish(exports) # ""
              THEN [sim EXCEPT !.pc = "threw", !.name = name]
              ELSE [sim EXCEPT !.pc = "loaded", !.name = name, !.jobFee = jobFee]
    /\ UNCHANGED simOther

\* processJob after loadOffering returned, steps 1 to 3 and the call of
\* executeJob.  valid and funds are what the handlers do
processJob(valid, funds) ==
    /\ sim.pc = "loaded"
    /\ LET exports == ModuleExports(disk[sim.name].handlers)
           requiredFunds == disk[sim.name].json.obj.requiredFunds
           step == FundsStep(requiredFunds, exports, sim.jobFee, funds)
       IN
       sim' =
         IF "validateRequirements" \in exports /\ valid = "throw"
         THEN [sim EXCEPT !.pc = "threw",
                          !.out = <<SimEvent("call", "validateRequirements")>>]
         ELSE IF "validateRequirements" \in exports /\ valid = "false"
         THEN [sim EXCEPT !.pc = "done",
                          !.out = <<SimEvent("call", "validateRequirements"),
                                    SimEvent("reject", "Job request failed validation")>>]
         ELSE [sim EXCEPT
                 !.pc = step.pc,
                 !.out = (IF "validateRequirements" \in exports
                            THEN <<SimEvent("call", "validateRequirements")>>
                            ELSE << >>)
                         \o <<SimEvent("accept", "")>> \o step.out]
    /\ UNCHANGED simOther

\* the promise of executeJob settles: deliver, or the reject of the catch
SimExecuteSettles(result) ==
    /\ sim.pc = "executing"
    /\ sim' = [sim EXCEPT
                 !.pc = "done",
                 !.out = Append(@, IF result.throws
                                     THEN SimEvent("reject", "Execution error")
                                     ELSE SimEvent("deliver", "result"))]
    /\ UNCHANGED simOther

NextSim ==
    \/ \E name \in OfferingNames, jobFee \in Fees : SimLoad(name, jobFee)
    \/ \E valid \in {"true", "false", "throw"},
          funds \in Outcomes(SimFundsResults) : processJob(valid, funds)
    \/ \E result \in Outcomes(ExecuteJobResults(AdaRequest)) : SimExecuteSettles(result)

SpecSim == Init /\ [][NextSim]_vars

\* the positions of the events of a kind in the output of the simulator
SimAt(ev) == {i \in DOMAIN sim.out : sim.out[i].ev = ev}
SimCalls(h) == {i \in SimAt("call") : sim.out[i].text = h}

\* C35: in processJob a pass that reaches executeJob has emitted accept and
\* then exactly one requestFundsMemo before executeJob is called, also for
\* an offering with requiredFunds = false, whose memo carries
\* additionalFunds = 0, no token and total = jobFee; a pass rejected at
\* validation emits neither accept nor requestFundsMemo
C35_MemoBeforeExecute ==
    /\ \A x \in SimCalls("executeJob") :
          /\ Cardinality(SimAt("accept")) = 1
          /\ Cardinality(SimAt("requestFundsMemo")) = 1
          /\ \E a \in SimAt("accept"), m \in SimAt("requestFundsMemo") :
                a < m /\ m < x
    /\ \A m \in SimAt("requestFundsMemo") :
          disk[sim.name].json.obj.requiredFunds = "false" =>
             /\ sim.out[m].additionalFunds = 0
             /\ sim.out[m].token = NoSymbol
             /\ sim.out[m].jobFee = sim.jobFee
             /\ sim.out[m].total = sim.jobFee
    /\ (\E r \in SimAt("reject") :
           sim.out[r].text = "Job request failed validation")
          => SimAt("accept") = {} /\ SimAt("requestFundsMemo") = {}

\* executeJob was reached for an offering that requires no funds and
\* charges a fee
C35_Witness ==
    /\ sim.pc = "done"
    /\ SimAt("deliver") # {}
    /\ disk[sim.name].json.obj.requiredFunds = "false"
    /\ \E m \in SimAt("requestFundsMemo") : sim.out[m].total = MaxFee

(***************************************************************************)
(* Starting the seller process                                             *)
(*                                                                         *)
(* seller.pid is SELLER_PID of config.json, seller.live the pids of the    *)
(* processes of the OS, seller.sellers those among them that run           *)
(* seller/runtime/seller.ts; calls and spawned count the calls of          *)
(* startSellerProcess and the processes it spawned.                        *)
(***************************************************************************)
MaxPids == 3
MaxCalls == 2

Pids == 1..MaxPids

\* isProcessRunning(pid): process.kill(pid, 0) finds a process
isProcessRunning(s, pid) == pid \in s.live

\* findSellerProcessFromOS(): the pid of a process that runs seller.ts
findSellerProcessFromOS(s) ==
    IF s.sellers = {} THEN NoPid
    ELSE CHOOSE q \in s.sellers : \A r \in s.sellers : q <= r

\* (variant of findSellerPid: without the scan of the OS processes)
findSellerPidConfigOnly(s) ==
    IF s.pid # NoPid /\ isProcessRunning(s, s.pid)
    THEN [found |-> s.pid, pid |-> s.pid]
    ELSE [found |-> NoPid, pid |-> NoPid]

\* findSellerPid(): the pid found (or NoPid), and SELLER_PID after the call:
\* a stale SELLER_PID is removed by removePidFromConfig
findSellerPid(s) ==
    IF s.pid # NoPid /\ isProcessRunning(s, s.pid)
    THEN [found |-> s.pid, pid |-> s.pid]
    ELSE [found |-> findSellerProcessFromOS(s), pid |-> NoPid]

sellerOther ==
    <<disk, cli, registered, passes, trace, modules, io, config, setup, last,
      session, sim>>

\* startSellerProcess(): spawn gives the new process the pid p, or fails
startSellerProcess(p, spawns) ==
    /\ seller.calls < MaxCalls
    /\ p \notin seller.live \/ findSellerPid(seller).found # NoPid
    /\ LET f == findSellerPid(seller) IN
       seller' =
         IF f.found # NoPid \/ ~spawns
         THEN [seller EXCEPT !.pid = f.pid, !.calls = @ + 1]
         ELSE [seller EXCEPT !.pid = f.pid, !.calls = @ + 1,
                             !.live = @ \cup {p}, !.sellers = @ \cup {p},
                             !.spawned = @ + 1]
    /\ UNCHANGED sellerOther

\* a running seller records its pid: writePidToConfig(process.pid)
writePidToConfig(p) ==
    /\ p \in seller.sellers
    /\ seller.pid # p
    /\ seller' = [seller EXCEPT !.pid = p]
    /\ UNCHANGED sellerOther

\* a process ends
ProcessExits(p) ==
    /\ p \in seller.live
    /\ seller' = [seller EXCEPT !.live = @ \ {p}, !.sellers = @ \ {p}]
    /\ UNCHANGED sellerOther

\* some other program is started and gets the pid p
ProcessStarts(p) ==
    /\ p \notin seller.live
    /\ seller' = [seller EXCEPT !.live = @ \cup {p}]
    /\ UNCHANGED sellerOther

\* config.json may hold the pid of an earlier seller
InitSeller ==
    /\ disk = [n \in OfferingNames |-> MissingEntry]
    /\ cli = CliIdle
    /\ registered = {}
    /\ passes = << >>
    /\ trace = << >>
    /\ modules = [n \in OfferingNames |-> NotImported]
    /\ io = [n \in OfferingNames |-> [reads |-> 0, evals |-> 0]]
    /\ config = NoConfig
    /\ setup = SetupIdle
    /\ last = NoSync
    /\ session = SessionIdle
    /\ sim = SimIdle
    /\ \E pid \in Pids \cup {NoPid} : seller = [SellerIdle EXCEPT !.pid = pid]

NextSeller ==
    \/ \E p \in Pids, spawns \in BOOLEAN : startSellerProcess(p, spawns)
    \/ \E p \in Pids : writePidToConfig(p)
    \/ \E p \in Pids : ProcessExits(p)
    \/ \E p \in Pids : ProcessStarts(p)

SpecSeller == InitSeller /\ [][NextSeller]_vars

\* SELLER_PID is set and its process is running
LivePid(s) == s.pid # NoPid /\ s.pid \in s.live

\* C36: startSellerProcess spawns a seller only when findSellerPid finds
\* none running, that is when SELLER_PID is not the pid of a running
\* process and no process of the OS runs the seller; while a seller runs,
\* every call spawns nothing; a SELLER_PID whose process is not running is
\* removed from config.json by the call
C36_StartIsIdempotent ==
    [][(\E p \in Pids, spawns \in BOOLEAN : startSellerProcess(p, spawns)) =>
          /\ seller'.spawned > seller.spawned =>
                ~LivePid(seller) /\ seller.sellers = {}
          /\ seller.sellers # {} =>
                /\ seller'.spawned = seller.spawned
                /\ seller'.sellers = seller.sellers
                /\ seller'.live = seller.live
          /\ seller'.pid = IF LivePid(seller) THEN seller.pid ELSE NoPid]_vars

\* the first call spawned a seller and the second, made while it runs and
\* with no SELLER_PID in config.json, spawned nothing
C36_Witness ==
    /\ seller.calls = MaxCalls
    /\ seller.spawned = 1
    /\ seller.sellers # {}
    /\ seller.pid = NoPid

====
